---- MODULE Spec2Model ----
(***************************************************************************)
(* Model of the safe API of the ahv crate (src/src/api/mod.rs): the        *)
(* VirtualMachine allocation and mapping registries, the two handle        *)
(* counters, the host allocator behind VirtualMachineAllocation and the    *)
(* Hypervisor framework calls hv_vm_map / hv_vm_unmap / hv_vm_protect.     *)
(***************************************************************************)
EXTENDS Integers, Sequences, FiniteSets, TLC

VARIABLES
    allocation_counter,   \* VirtualMachine.allocation_counter (Counter.0)
    mapping_counter,      \* VirtualMachine.mapping_counter (Counter.0)
    allocation_list,      \* VirtualMachine.allocation_list (Vec, in push order)
    mapping_list,         \* VirtualMachine.mapping_list (Vec, in push order)
    hv_memory,            \* guest ranges the Hypervisor framework currently maps
    heap_live,            \* host blocks handed out by alloc_zeroed and not yet freed
    host_fault,           \* the process hit undefined behaviour in the host allocator
    issued_allocations,   \* history: every AllocationHandle returned, with the size asked
    issued_mappings,      \* history: every MappingHandle returned, with its allocation
    deallocated,          \* history: handles on which deallocate returned Ok
    vm_lifetime,          \* "live", or how Drop for VirtualMachine ended
    drop_calls,           \* the backend calls Drop for VirtualMachine issued
    vm_created,           \* history: what hv_vm_create answered to each VirtualMachine::new
    vcpus                 \* per backend vCPU handle: the VirtualCpu that wraps it

vars == <<allocation_counter, mapping_counter, allocation_list, mapping_list,
          hv_memory, heap_live, host_fault, issued_allocations, issued_mappings,
          deallocated, vm_lifetime, drop_calls, vm_created, vcpus>>

vm_fields == <<allocation_counter, mapping_counter, allocation_list, mapping_list>>

history == <<issued_allocations, issued_mappings, deallocated>>

teardown == <<vm_lifetime, drop_calls>>

\* everything but the vCPUs
vm_vars == <<allocation_counter, mapping_counter, allocation_list, mapping_list,
             hv_memory, heap_live, host_fault, issued_allocations,
             issued_mappings, deallocated, vm_lifetime, drop_calls, vm_created>>

-----------------------------------------------------------------------------
(* Bounds of the model.                                                    *)

\* allocate is not called once the allocation counter has reached this value
MaxAllocations == 2

\* map is not called once the mapping counter has reached this value
MaxMappings == 2

\* the number of vCPUs (each on a thread of its own) the backend hands out
MaxVcpus == 2

\* VirtualMachine::new is not called more than this number of times
MaxConstructions == 2

-----------------------------------------------------------------------------
(* Program constants.                                                      *)

PAGE_SIZE == 65536

HV_MEMORY_READ == 1

HV_MEMORY_WRITE == 2

HV_MEMORY_EXEC == 4

\* hv_return_t is a u32; a value is written <<high 16 bits, low 16 bits>>
HV_SUCCESS == <<0, 0>>

HV_ERROR == <<64233, 16385>>

HV_BUSY == <<64233, 16386>>

HV_BAD_ARGUMENT == <<64233, 16387>>

HV_ILLEGAL_GUEST_STATE == <<64233, 16388>>

HV_NO_RESOURCES == <<64233, 16389>>

HV_NO_DEVICE == <<64233, 16390>>

HV_DENIED == <<64233, 16391>>

HV_UNSUPPORTED == <<64233, 16399>>

\* hv_exit_reason_t is a u32, written <<high 16 bits, low 16 bits>>
HV_EXIT_REASON_CANCELED == <<0, 0>>

HV_EXIT_REASON_EXCEPTION == <<0, 1>>

HV_EXIT_REASON_VTIMER_ACTIVATED == <<0, 2>>

HV_EXIT_REASON_UNKNOWN == <<0, 3>>

\* the null pointer
NULL == 0

-----------------------------------------------------------------------------
(* Result<T> and HypervisorError.                                          *)

HvError(kind) == [kind |-> kind, code |-> <<0, 0>>]

Ok(v) == [ok |-> TRUE, error |-> HvError("None"), value |-> v]

Err(e) == [ok |-> FALSE, error |-> e, value |-> 0]

InvalidHandle == HvError("InvalidHandle")

AllocationStillMapped == HvError("AllocationStillMapped")

\* a conversion that takes the named codes to be consecutive, HV_UNSUPPORTED
\* coming right after HV_DENIED
HypervisorErrorFrom_consecutive(value) ==
    CASE value = HV_SUCCESS -> HvError("panic")
      [] value = HV_ERROR -> HvError("Error")
      [] value = HV_BUSY -> HvError("Busy")
      [] value = HV_BAD_ARGUMENT -> HvError("BadArgument")
      [] value = HV_ILLEGAL_GUEST_STATE -> HvError("IllegalGuestState")
      [] value = HV_NO_RESOURCES -> HvError("NoResources")
      [] value = HV_NO_DEVICE -> HvError("NoDevice")
      [] value = HV_DENIED -> HvError("Denied")
      [] value = <<HV_DENIED[1], HV_DENIED[2] + 1>> -> HvError("Unsupported")
      [] OTHER -> [kind |-> "Unknown", code |-> value]

\* impl From<hv_return_t> for HypervisorError
HypervisorErrorFrom(value) ==
    CASE value = HV_SUCCESS -> HvError("panic")
      [] value = HV_ERROR -> HvError("Error")
      [] value = HV_BUSY -> HvError("Busy")
      [] value = HV_BAD_ARGUMENT -> HvError("BadArgument")
      [] value = HV_ILLEGAL_GUEST_STATE -> HvError("IllegalGuestState")
      [] value = HV_NO_RESOURCES -> HvError("NoResources")
      [] value = HV_NO_DEVICE -> HvError("NoDevice")
      [] value = HV_DENIED -> HvError("Denied")
      [] value = HV_UNSUPPORTED -> HvError("Unsupported")
      [] OTHER -> [kind |-> "Unknown", code |-> value]

\* a conversion that hands every status, the success status too, to From
convert_hv_return_unguarded(value) ==
    Err(HypervisorErrorFrom(value))

\* convert_hv_return
convert_hv_return(value) ==
    IF value = HV_SUCCESS THEN Ok(0) ELSE Err(HypervisorErrorFrom(value))

-----------------------------------------------------------------------------
(* MemoryPermission and its conversion to hv_memory_flags_t.               *)

MemoryPermission(read, write, execute) ==
    [read |-> read, write |-> write, execute |-> execute]

READ == MemoryPermission(TRUE, FALSE, FALSE)

EXECUTE == MemoryPermission(FALSE, FALSE, TRUE)

READ_WRITE == MemoryPermission(TRUE, TRUE, FALSE)

WRITE == MemoryPermission(FALSE, TRUE, FALSE)

READ_EXECUTE == MemoryPermission(TRUE, FALSE, TRUE)

WRITE_EXECUTE == MemoryPermission(FALSE, TRUE, TRUE)

READ_WRITE_EXECUTE == MemoryPermission(TRUE, TRUE, TRUE)

RECURSIVE BitOr(_, _)
BitOr(a, b) ==
    IF a = 0 THEN b
    ELSE IF b = 0 THEN a
    ELSE (IF a % 2 = 1 \/ b % 2 = 1 THEN 1 ELSE 0) + 2 * BitOr(a \div 2, b \div 2)

\* a conversion written as one if / else-if chain: the first flag that is
\* true gives the result
hv_memory_flags_from_first_flag(value) ==
    IF value.read THEN HV_MEMORY_READ
    ELSE IF value.write THEN HV_MEMORY_WRITE
    ELSE IF value.execute THEN HV_MEMORY_EXEC
    ELSE 0

\* impl From<MemoryPermission> for hv_memory_flags_t
hv_memory_flags_from(value) ==
    LET r0 == 0
        r1 == IF value.read THEN BitOr(r0, HV_MEMORY_READ) ELSE r0
        r2 == IF value.write THEN BitOr(r1, HV_MEMORY_WRITE) ELSE r1
        r3 == IF value.execute THEN BitOr(r2, HV_MEMORY_EXEC) ELSE r2
    IN  r3

-----------------------------------------------------------------------------
(* Counter.                                                                *)

\* The u64 of Counter is written as the integer congruent to it modulo 2^64
\* that is nearest to 0: 0, 1, 2, ... stand for themselves and -1, -2, ...
\* for 2^64 - 1, 2^64 - 2, ...; the wrapping increment of a u64 is then + 1
\* on the integer, and the model stays far from the other end, 2^63.

\* u64::MAX, 2^64 - 1
U64_MAX == -1

\* a < b as u64 values
U64Less(a, b) == IF (a < 0) = (b < 0) THEN a < b ELSE b < 0

\* self.0 += 1 overflows: with overflow checks (the dev profile) it panics,
\* without them (the release profile) it wraps to 0
add_overflows(counter) == counter = U64_MAX

\* a counter that returns its value before the increment
get_next_value_post_increment(counter) ==
    [counter |-> counter + 1, value |-> counter]

\* a counter that returns the next value without storing it
get_next_value_no_store(counter) ==
    [counter |-> counter, value |-> counter + 1]

\* Counter::get_next_value: the counter after the call and the value returned
\* (the increment wraps; a build with overflow checks panics instead when
\* add_overflows(counter))
get_next_value(counter) ==
    [counter |-> counter + 1, value |-> counter + 1]

-----------------------------------------------------------------------------
(* VirtualMachineAllocation.                                               *)

\* a layout that is not padded to its alignment
layout_not_padded(size) == size

\* a padding that always moves to the next multiple of the alignment
pad_past_align(size) ==
    ((size \div PAGE_SIZE) + 1) * PAGE_SIZE

\* Layout::from_size_align(size, PAGE_SIZE).unwrap().pad_to_align().size()
pad_to_align(size) ==
    ((size + PAGE_SIZE - 1) \div PAGE_SIZE) * PAGE_SIZE

\* VirtualMachineAllocation::new, with base the pointer alloc_zeroed returned;
\* prefix is the bytes written at the start of the zeroed block
VirtualMachineAllocation_new(size, base) ==
    [base_address |-> base, layout_size |-> pad_to_align(size), handle |-> 0,
     prefix |-> <<>>]

-----------------------------------------------------------------------------
(* Lookups over the two lists.                                             *)

\* the first index of a scan that returns at its first hit
Min(S) == CHOOSE x \in S : \A y \in S : x <= y

\* a lookup that falls back to the first entry when the handle is absent
find_allocation_or_first(list, handle) ==
    LET hits == {i \in 1..Len(list) : list[i].handle = handle}
    IN  IF hits # {} THEN Ok(Min(hits))
        ELSE IF list # <<>> THEN Ok(1) ELSE Err(InvalidHandle)

\* VirtualMachine::find_allocation_by_handle: the first index whose entry has
\* the handle, or InvalidHandle
find_allocation_by_handle(list, handle) ==
    LET hits == {i \in 1..Len(list) : list[i].handle = handle}
    IN  IF hits # {} THEN Ok(Min(hits)) ELSE Err(InvalidHandle)

\* a mapping lookup that compares the allocation handle of the entries
find_mapping_by_allocation_handle(list, handle) ==
    LET hits == {i \in 1..Len(list) : list[i].allocation_handle = handle}
    IN  IF hits # {} THEN Ok(Min(hits)) ELSE Err(InvalidHandle)

\* VirtualMachine::find_mapping_by_handle
find_mapping_by_handle(list, handle) ==
    LET hits == {i \in 1..Len(list) : list[i].mapping_handle = handle}
    IN  IF hits # {} THEN Ok(Min(hits)) ELSE Err(InvalidHandle)

\* a reference check that compares the mapping's own handle
is_mapping_handle_present(list, handle) ==
    \E i \in 1..Len(list) : list[i].mapping_handle = handle

\* VirtualMachine::is_allocation_mapped
is_allocation_mapped(list, handle) ==
    \E i \in 1..Len(list) : list[i].allocation_handle = handle

\* Vec::pop in place of remove(index): the last element leaves, whatever index
Vec_pop(list, index) ==
    SubSeq(list, 1, Len(list) - 1)

\* Vec::remove(index): the elements after index shift down by one
Vec_remove(list, index) ==
    [i \in 1..(Len(list) - 1) |-> IF i < index THEN list[i] ELSE list[i + 1]]

-----------------------------------------------------------------------------
(* The host allocator (alloc::alloc::alloc_zeroed / dealloc).              *)

\* the host blocks the allocator can hand out; a block is named by its address
HostBlocks == 1..MaxAllocations

\* alloc_zeroed: a block that is not live (the lowest one: blocks are
\* interchangeable, and a freed block is handed out again at once), or the
\* null pointer on failure
alloc_zeroed_returns(live) ==
    {b \in HostBlocks \ live : \A c \in HostBlocks \ live : b <= c} \cup {NULL}

\* dealloc of a live block frees it; dealloc of anything else (a block already
\* freed, the null pointer) is undefined behaviour: the outcomes are the set
\* of [live, fault] pairs the process can be left in
dealloc_outcomes(live, base) ==
    IF base \in live THEN {[live |-> live \ {base}, fault |-> FALSE]}
    ELSE IF base = NULL THEN {[live |-> live, fault |-> FALSE],
                              [live |-> live, fault |-> TRUE]}
    ELSE {[live |-> live, fault |-> TRUE]}

-----------------------------------------------------------------------------
(* The Hypervisor framework (src/src/ffi/mod.rs), as far as the VM calls   *)
(* go: it keeps the guest ranges it accepted and rejects a map that        *)
(* overlaps one of them; any call may also fail for its own reasons.       *)

\* the failure statuses the framework answers with in this model
BackendFailures == {HV_ERROR, HV_NO_RESOURCES}

BackendStatuses == {HV_SUCCESS} \cup BackendFailures

Overlaps(m, ipa, size) == ipa < m.ipa + m.size /\ m.ipa < ipa + size

BackendCall(fn, address, ipa, size, flags, ret) ==
    [fn |-> fn, address |-> address, ipa |-> ipa, size |-> size,
     flags |-> flags, ret |-> ret]

\* the statuses the framework can answer to a call, given what it maps
backend_returns(mem, call) ==
    CASE call.fn = "hv_vm_map" ->
           IF \E m \in mem : Overlaps(m, call.ipa, call.size)
           THEN BackendFailures ELSE BackendStatuses
      [] call.fn \in {"hv_vm_unmap", "hv_vm_protect"} ->
           IF \E m \in mem : m.ipa = call.ipa /\ m.size = call.size
           THEN BackendStatuses ELSE BackendFailures
      [] OTHER -> BackendStatuses

\* what the framework maps after the call
backend_apply(mem, call) ==
    IF call.ret # HV_SUCCESS THEN mem
    ELSE CASE call.fn = "hv_vm_map" ->
                mem \cup {[address |-> call.address, ipa |-> call.ipa,
                           size |-> call.size, flags |-> call.flags]}
           [] call.fn = "hv_vm_unmap" ->
                {m \in mem : ~(m.ipa = call.ipa /\ m.size = call.size)}
           [] call.fn = "hv_vm_protect" ->
                {IF m.ipa = call.ipa /\ m.size = call.size
                 THEN [m EXCEPT !.flags = call.flags] ELSE m : m \in mem}
           [] call.fn = "hv_vm_destroy" -> {}
           [] OTHER -> mem

RECURSIVE backend_accepts(_, _)
\* every call of the sequence got a status the framework can answer
backend_accepts(mem, calls) ==
    IF calls = <<>> THEN TRUE
    ELSE /\ Head(calls).ret \in backend_returns(mem, Head(calls))
         /\ backend_accepts(backend_apply(mem, Head(calls)), Tail(calls))

RECURSIVE backend_after(_, _)
backend_after(mem, calls) ==
    IF calls = <<>> THEN mem
    ELSE backend_after(backend_apply(mem, Head(calls)), Tail(calls))

-----------------------------------------------------------------------------
(* The methods of VirtualMachine. Each takes self (the four fields) and    *)
(* what the environment answers, and gives the fields after the call, the  *)
(* result, the backend calls issued, the allocations dropped and whether   *)
(* it wrote through a null pointer.                                        *)

Self ==
    [allocation_counter |-> allocation_counter, mapping_counter |-> mapping_counter,
     allocation_list |-> allocation_list, mapping_list |-> mapping_list]

Outcome(self, result, calls, dropped) ==
    [self |-> self, result |-> result, calls |-> calls, dropped |-> dropped,
     wrote_null |-> FALSE]

\* a constructor that gives a VirtualMachine whatever hv_vm_create answered
VirtualMachine_new_unchecked(config, ret) ==
    [result |-> Ok([allocation_counter |-> 0, mapping_counter |-> 0,
                    allocation_list |-> <<>>, mapping_list |-> <<>>]),
     calls |-> <<BackendCall("hv_vm_create", config, 0, 0, 0, ret)>>]

\* VirtualMachine::new; config is the handle of the configuration (the null
\* pointer for None) and ret what hv_vm_create answered
VirtualMachine_new(config, ret) ==
    LET call == BackendCall("hv_vm_create", config, 0, 0, 0, ret)
        converted == convert_hv_return(ret)
    IN  IF ~converted.ok THEN [result |-> Err(converted.error), calls |-> <<call>>]
        ELSE [result |-> Ok([allocation_counter |-> 0, mapping_counter |-> 0,
                             allocation_list |-> <<>>, mapping_list |-> <<>>]),
              calls |-> <<call>>]

\* VirtualMachine::allocate; base is what alloc_zeroed returned
allocate(self, size, base) ==
    LET allocation == VirtualMachineAllocation_new(size, base)
        next == get_next_value(self.allocation_counter)
        handle == next.value
    IN  Outcome([self EXCEPT !.allocation_counter = next.counter,
                             !.allocation_list =
                                 Append(@, [allocation EXCEPT !.handle = handle])],
                Ok(handle), <<>>, <<>>)

\* VirtualMachine::get_allocation_slice / get_allocation_slice_mut: the slice
\* is named by its base pointer and length, with the bytes at its start
get_allocation_slice(self, allocation_handle) ==
    LET found == find_allocation_by_handle(self.allocation_list, allocation_handle)
    IN  IF ~found.ok THEN Err(found.error)
        ELSE LET allocation == self.allocation_list[found.value]
             IN  Ok([base_address |-> allocation.base_address,
                     len |-> allocation.layout_size,
                     prefix |-> allocation.prefix])

\* a copy that stops one byte before the end of the source
copy_all_but_last(prefix, source) ==
    [i \in 1..(IF Len(prefix) > Len(source) - 1 THEN Len(prefix)
               ELSE IF Len(source) = 0 THEN 0 ELSE Len(source) - 1) |->
        IF i <= Len(source) - 1 THEN source[i] ELSE prefix[i]]

\* destination[..source.len()].copy_from_slice(source) on the bytes at the start
copy_from_slice(prefix, source) ==
    [i \in 1..(IF Len(prefix) > Len(source) THEN Len(prefix) ELSE Len(source)) |->
        IF i <= Len(source) THEN source[i] ELSE prefix[i]]

\* VirtualMachine::allocate_from
allocate_from(self, source, base) ==
    LET a == allocate(self, Len(source), base)
    IN  IF ~a.result.ok THEN a
        ELSE LET allocation_handle == a.result.value
                 destination == get_allocation_slice(a.self, allocation_handle)
                 index == find_allocation_by_handle(a.self.allocation_list,
                                                    allocation_handle).value
             IN  IF destination.ok
                 THEN [a EXCEPT
                         !.self.allocation_list[index].prefix =
                             copy_from_slice(@, source),
                         !.wrote_null = (destination.value.base_address = NULL
                                         /\ Len(source) > 0)]
                 ELSE [a EXCEPT !.result = Err(HvError("NoResources"))]

\* a deallocate without the check that the allocation is not in use
deallocate_unchecked(self, allocation_handle) ==
    LET found == find_allocation_by_handle(self.allocation_list, allocation_handle)
    IN  IF ~found.ok THEN Outcome(self, Err(found.error), <<>>, <<>>)
        ELSE Outcome([self EXCEPT !.allocation_list = Vec_remove(@, found.value)],
                     Ok(0), <<>>, <<self.allocation_list[found.value]>>)

\* a deallocate that pops the last allocation instead of removing the one found
deallocate_pop(self, allocation_handle) ==
    LET found == find_allocation_by_handle(self.allocation_list, allocation_handle)
    IN  IF ~found.ok THEN Outcome(self, Err(found.error), <<>>, <<>>)
        ELSE IF is_allocation_mapped(self.mapping_list, allocation_handle)
        THEN Outcome(self, Err(AllocationStillMapped), <<>>, <<>>)
        ELSE Outcome([self EXCEPT !.allocation_list =
                                      Vec_remove(@, Len(self.allocation_list))],
                     Ok(0), <<>>,
                     <<self.allocation_list[Len(self.allocation_list)]>>)

\* VirtualMachine::deallocate
deallocate(self, allocation_handle) ==
    LET found == find_allocation_by_handle(self.allocation_list, allocation_handle)
    IN  IF ~found.ok THEN Outcome(self, Err(found.error), <<>>, <<>>)
        ELSE IF is_allocation_mapped(self.mapping_list, allocation_handle)
        THEN Outcome(self, Err(AllocationStillMapped), <<>>, <<>>)
        ELSE Outcome([self EXCEPT !.allocation_list = Vec_remove(@, found.value)],
                     Ok(0), <<>>, <<self.allocation_list[found.value]>>)

\* a map that takes the mapping handle before it calls hv_vm_map
map_handle_first(self, allocation_handle, guest_address, permission, ret) ==
    LET found == find_allocation_by_handle(self.allocation_list, allocation_handle)
    IN  IF ~found.ok THEN Outcome(self, Err(found.error), <<>>, <<>>)
        ELSE
        LET allocation == self.allocation_list[found.value]
            allocation_size == allocation.layout_size
            next == get_next_value(self.mapping_counter)
            counted == [self EXCEPT !.mapping_counter = next.counter]
            call == BackendCall("hv_vm_map", allocation.base_address, guest_address,
                                allocation_size, hv_memory_flags_from(permission), ret)
            converted == convert_hv_return(ret)
        IN  IF ~converted.ok THEN Outcome(counted, Err(converted.error), <<call>>, <<>>)
            ELSE Outcome([counted EXCEPT !.mapping_list =
                             Append(@, [allocation_handle |-> allocation_handle,
                                        mapping_handle |-> next.value,
                                        address |-> guest_address,
                                        size |-> allocation_size,
                                        permission |-> permission])],
                         Ok(next.value), <<call>>, <<>>)

\* a map that takes the mapping handle before it looks the allocation up
map_counter_before_lookup(self, allocation_handle, guest_address, permission, ret) ==
    LET next == get_next_value(self.mapping_counter)
        counted == [self EXCEPT !.mapping_counter = next.counter]
        found == find_allocation_by_handle(self.allocation_list, allocation_handle)
    IN  IF ~found.ok THEN Outcome(counted, Err(found.error), <<>>, <<>>)
        ELSE
        LET allocation == self.allocation_list[found.value]
            allocation_size == allocation.layout_size
            call == BackendCall("hv_vm_map", allocation.base_address, guest_address,
                                allocation_size, hv_memory_flags_from(permission), ret)
            converted == convert_hv_return(ret)
        IN  IF ~converted.ok THEN Outcome(self, Err(converted.error), <<call>>, <<>>)
            ELSE Outcome([counted EXCEPT !.mapping_list =
                             Append(@, [allocation_handle |-> allocation_handle,
                                        mapping_handle |-> next.value,
                                        address |-> guest_address,
                                        size |-> allocation_size,
                                        permission |-> permission])],
                         Ok(next.value), <<call>>, <<>>)

\* a map that looks for an overlapping record itself and refuses without
\* calling hv_vm_map
map_rejecting_overlap(self, allocation_handle, guest_address, permission, ret) ==
    LET found == find_allocation_by_handle(self.allocation_list, allocation_handle)
    IN  IF ~found.ok THEN Outcome(self, Err(found.error), <<>>, <<>>)
        ELSE
        LET allocation == self.allocation_list[found.value]
            allocation_size == allocation.layout_size
            call == BackendCall("hv_vm_map", allocation.base_address, guest_address,
                                allocation_size, hv_memory_flags_from(permission), ret)
            converted == convert_hv_return(ret)
        IN  IF \E i \in DOMAIN self.mapping_list :
                  /\ guest_address < self.mapping_list[i].address
                                          + self.mapping_list[i].size
                  /\ self.mapping_list[i].address < guest_address + allocation_size
            THEN Outcome(self, Err(HvError("BadArgument")), <<>>, <<>>)
            ELSE IF ~converted.ok
            THEN Outcome(self, Err(converted.error), <<call>>, <<>>)
            ELSE
            LET next == get_next_value(self.mapping_counter)
            IN  Outcome([self EXCEPT !.mapping_counter = next.counter,
                                     !.mapping_list =
                                         Append(@, [allocation_handle |-> allocation_handle,
                                                    mapping_handle |-> next.value,
                                                    address |-> guest_address,
                                                    size |-> allocation_size,
                                                    permission |-> permission])],
                        Ok(next.value), <<call>>, <<>>)

\* VirtualMachine::map; ret is the status hv_vm_map answers if it is called
map(self, allocation_handle, guest_address, permission, ret) ==
    LET found == find_allocation_by_handle(self.allocation_list, allocation_handle)
    IN  IF ~found.ok THEN Outcome(self, Err(found.error), <<>>, <<>>)
        ELSE
        LET allocation == self.allocation_list[found.value]
            allocation_size == allocation.layout_size
            call == BackendCall("hv_vm_map", allocation.base_address, guest_address,
                                allocation_size, hv_memory_flags_from(permission), ret)
            converted == convert_hv_return(ret)
        IN  IF ~converted.ok THEN Outcome(self, Err(converted.error), <<call>>, <<>>)
            ELSE
            LET next == get_next_value(self.mapping_counter)
                mapping_handle == next.value
                virtual_mapping ==
                    [allocation_handle |-> allocation_handle,
                     mapping_handle |-> mapping_handle,
                     address |-> guest_address,
                     size |-> allocation_size,
                     permission |-> permission]
            IN  Outcome([self EXCEPT !.mapping_counter = next.counter,
                                     !.mapping_list = Append(@, virtual_mapping)],
                        Ok(mapping_handle), <<call>>, <<>>)

\* an unmap that releases one page at the address of the mapping
unmap_one_page(self, mapping_handle, ret) ==
    LET found == find_mapping_by_handle(self.mapping_list, mapping_handle)
    IN  IF ~found.ok THEN Outcome(self, Err(found.error), <<>>, <<>>)
        ELSE
        LET index == found.value
            mapping == self.mapping_list[index]
            call == BackendCall("hv_vm_unmap", NULL, mapping.address, PAGE_SIZE,
                                0, ret)
            converted == convert_hv_return(ret)
        IN  IF ~converted.ok THEN Outcome(self, Err(converted.error), <<call>>, <<>>)
            ELSE Outcome([self EXCEPT !.mapping_list = Vec_remove(@, index)],
                         Ok(0), <<call>>, <<>>)

\* an unmap that removes the record whatever hv_vm_unmap answered
unmap_ignoring_status(self, mapping_handle, ret) ==
    LET found == find_mapping_by_handle(self.mapping_list, mapping_handle)
    IN  IF ~found.ok THEN Outcome(self, Err(found.error), <<>>, <<>>)
        ELSE
        LET index == found.value
            mapping == self.mapping_list[index]
            call == BackendCall("hv_vm_unmap", NULL, mapping.address, mapping.size,
                                0, ret)
        IN  Outcome([self EXCEPT !.mapping_list = Vec_remove(@, index)],
                    convert_hv_return(ret), <<call>>, <<>>)

\* VirtualMachine::unmap; ret is the status hv_vm_unmap answers if it is called
unmap(self, mapping_handle, ret) ==
    LET found == find_mapping_by_handle(self.mapping_list, mapping_handle)
    IN  IF ~found.ok THEN Outcome(self, Err(found.error), <<>>, <<>>)
        ELSE
        LET index == found.value
            mapping == self.mapping_list[index]
            call == BackendCall("hv_vm_unmap", NULL, mapping.address, mapping.size,
                                0, ret)
            converted == convert_hv_return(ret)
        IN  IF ~converted.ok THEN Outcome(self, Err(converted.error), <<call>>, <<>>)
            ELSE Outcome([self EXCEPT !.mapping_list = Vec_remove(@, index)],
                         Ok(0), <<call>>, <<>>)

\* a reprotect that stores the permission in the first record of the list
reprotect_first(self, mapping_handle, permission, ret) ==
    LET found == find_mapping_by_handle(self.mapping_list, mapping_handle)
    IN  IF ~found.ok THEN Outcome(self, Err(found.error), <<>>, <<>>)
        ELSE
        LET mapping == self.mapping_list[found.value]
            call == BackendCall("hv_vm_protect", NULL, mapping.address, mapping.size,
                                hv_memory_flags_from(permission), ret)
            converted == convert_hv_return(ret)
        IN  IF ~converted.ok THEN Outcome(self, Err(converted.error), <<call>>, <<>>)
            ELSE Outcome([self EXCEPT !.mapping_list[1].permission = permission],
                         Ok(0), <<call>>, <<>>)

\* VirtualMachine::reprotect; ret is the status hv_vm_protect answers if called
reprotect(self, mapping_handle, permission, ret) ==
    LET found == find_mapping_by_handle(self.mapping_list, mapping_handle)
    IN  IF ~found.ok THEN Outcome(self, Err(found.error), <<>>, <<>>)
        ELSE
        LET index == found.value
            mapping == self.mapping_list[index]
            call == BackendCall("hv_vm_protect", NULL, mapping.address, mapping.size,
                                hv_memory_flags_from(permission), ret)
            converted == convert_hv_return(ret)
        IN  IF ~converted.ok THEN Outcome(self, Err(converted.error), <<call>>, <<>>)
            \* mapping_list.get_mut(index).expect("Mapping disapeared in between!")
            ELSE IF index \notin DOMAIN self.mapping_list
            THEN Outcome(self, Err(HvError("panic")), <<call>>, <<>>)
            ELSE Outcome([self EXCEPT !.mapping_list[index].permission = permission],
                         Ok(0), <<call>>, <<>>)

\* VirtualMachine::get_mapping_info: a copy of the record
get_mapping_info(self, mapping_handle) ==
    LET found == find_mapping_by_handle(self.mapping_list, mapping_handle)
    IN  IF ~found.ok THEN Err(found.error)
        ELSE Ok(self.mapping_list[found.value])

\* VirtualMachine::get_all_mapping_infos: a clone of the mapping list
get_all_mapping_infos(self) == self.mapping_list

\* what the body of drop has done so far: the fields, the backend calls
\* issued, and whether an expect panicked
Dropping(self, calls, panicked) ==
    [self |-> self, calls |-> calls, panicked |-> panicked]

RECURSIVE unmap_by_index(_, _, _, _)
\* a loop over the positions of the list as it was, reading the list as it is
unmap_by_index(acc, count, rets, i) ==
    IF i > count \/ acc.panicked THEN acc
    ELSE IF i > Len(acc.self.mapping_list)
    THEN unmap_by_index(acc, count, rets, i + 1)
    ELSE LET out == unmap(acc.self, acc.self.mapping_list[i].mapping_handle, rets[i])
         IN  unmap_by_index(Dropping(out.self, acc.calls \o out.calls,
                                     ~out.result.ok),
                            count, rets, i + 1)

\* a drop that walks the mapping list by position while unmap shrinks it
drop_VirtualMachine_by_index(self, rets) ==
    LET count == Len(self.mapping_list)
        unmapped == unmap_by_index(Dropping(self, <<>>, FALSE), count, rets, 1)
        ret == rets[count + 1]
        call == BackendCall("hv_vm_destroy", NULL, 0, 0, 0, ret)
    IN  IF unmapped.panicked THEN unmapped
        ELSE Dropping(unmapped.self, unmapped.calls \o <<call>>,
                      ~convert_hv_return(ret).ok)

RECURSIVE unmap_each(_, _, _, _)
\* for mapping in snapshot { self.unmap(mapping.mapping_handle).expect(..) },
\* from position i of the snapshot on; rets[i] is what hv_vm_unmap answers
unmap_each(acc, snapshot, rets, i) ==
    IF i > Len(snapshot) \/ acc.panicked THEN acc
    ELSE LET out == unmap(acc.self, snapshot[i].mapping_handle, rets[i])
         IN  unmap_each(Dropping(out.self, acc.calls \o out.calls, ~out.result.ok),
                        snapshot, rets, i + 1)

\* Drop for VirtualMachine (the body of drop); rets are the statuses the
\* backend answers, the last one for hv_vm_destroy
drop_VirtualMachine(self, rets) ==
    LET snapshot == get_all_mapping_infos(self)
        unmapped == unmap_each(Dropping(self, <<>>, FALSE), snapshot, rets, 1)
        ret == rets[Len(snapshot) + 1]
        call == BackendCall("hv_vm_destroy", NULL, 0, 0, 0, ret)
    IN  IF unmapped.panicked THEN unmapped
        ELSE Dropping(unmapped.self, unmapped.calls \o <<call>>,
                      ~convert_hv_return(ret).ok)

-----------------------------------------------------------------------------
(* VirtualCpuExitReason, VirtualCpu and the vCPU calls.                    *)

\* hv_vcpu_exit_exception_t
hv_vcpu_exit_exception(syndrome, virtual_address, physical_address) ==
    [syndrome |-> syndrome, virtual_address |-> virtual_address,
     physical_address |-> physical_address]

\* hv_vcpu_exit_t
hv_vcpu_exit(reason, exception) == [reason |-> reason, exception |-> exception]

\* the variants of VirtualCpuExitReason; only Exception carries a payload
NoPayload == hv_vcpu_exit_exception(0, 0, 0)

Cancelled == [kind |-> "Cancelled", exception |-> NoPayload]

Exception(exception) == [kind |-> "Exception", exception |-> exception]

VTimerActivated == [kind |-> "VTimerActivated", exception |-> NoPayload]

Unknown == [kind |-> "Unknown", exception |-> NoPayload]

\* a decoding that takes a reason outside the four known ones as a bug
exit_reason_from_known_only(value) ==
    CASE value.reason = HV_EXIT_REASON_CANCELED -> Cancelled
      [] value.reason = HV_EXIT_REASON_EXCEPTION -> Exception(value.exception)
      [] value.reason = HV_EXIT_REASON_VTIMER_ACTIVATED -> VTimerActivated
      [] value.reason = HV_EXIT_REASON_UNKNOWN -> Unknown
      [] OTHER -> [kind |-> "panic", exception |-> NoPayload]

\* impl From<hv_vcpu_exit_t> for VirtualCpuExitReason
VirtualCpuExitReasonFrom(value) ==
    CASE value.reason = HV_EXIT_REASON_CANCELED -> Cancelled
      [] value.reason = HV_EXIT_REASON_EXCEPTION -> Exception(value.exception)
      [] value.reason = HV_EXIT_REASON_VTIMER_ACTIVATED -> VTimerActivated
      [] value.reason = HV_EXIT_REASON_UNKNOWN -> Unknown
      [] OTHER -> Unknown

\* a call of the vCPU interface of the framework: hv_vcpus_exit takes the
\* handles of vcpus[..vcpu_count], the other calls one handle
VcpuCall(fn, handles, ret) == [fn |-> fn, vcpus |-> handles, ret |-> ret]

\* what a vCPU method gives: its result and the backend calls it issued
VcpuOutcome(result, calls) == [result |-> result, calls |-> calls]

\* VirtualMachine::create_vcpu; vcpu_handle is what hv_vcpu_create wrote
create_vcpu(vcpu_handle, ret) ==
    LET converted == convert_hv_return(ret)
        call == VcpuCall("hv_vcpu_create", <<>>, ret)
    IN  IF ~converted.ok THEN VcpuOutcome(Err(converted.error), <<call>>)
        ELSE VcpuOutcome(Ok([handle |-> vcpu_handle]), <<call>>)

\* VirtualMachine::exit_vcpus
exit_vcpus(handles, ret) ==
    VcpuOutcome(convert_hv_return(ret), <<VcpuCall("hv_vcpus_exit", handles, ret)>>)

\* a run that decodes the record behind self.vcpu_exit whatever hv_vcpu_run
\* answered
VirtualCpu_run_decoding_always(self, ret, vcpu_exit) ==
    VcpuOutcome(Ok(VirtualCpuExitReasonFrom(vcpu_exit)),
                <<VcpuCall("hv_vcpu_run", <<self.handle>>, ret)>>)

\* VirtualCpu::run; ret is what hv_vcpu_run answered and vcpu_exit what the
\* backend left behind self.vcpu_exit
VirtualCpu_run(self, ret, vcpu_exit) ==
    LET converted == convert_hv_return(ret)
        call == VcpuCall("hv_vcpu_run", <<self.handle>>, ret)
    IN  IF ~converted.ok THEN VcpuOutcome(Err(converted.error), <<call>>)
        ELSE VcpuOutcome(Ok(VirtualCpuExitReasonFrom(vcpu_exit)), <<call>>)

\* an exit that passes a count of 0 with the handle
VirtualCpu_exit_none(self, ret) ==
    VcpuOutcome(convert_hv_return(ret), <<VcpuCall("hv_vcpus_exit", <<>>, ret)>>)

\* VirtualCpu::exit: hv_vcpus_exit(&self.handle, 1)
VirtualCpu_exit(self, ret) ==
    VcpuOutcome(convert_hv_return(ret),
                <<VcpuCall("hv_vcpus_exit", <<self.handle>>, ret)>>)

\* a drop that goes on to hv_vcpu_destroy whatever exit returned
drop_VirtualCpu_ignoring_exit(self, rets) ==
    LET exited == VirtualCpu_exit(self, rets[1])
        call == VcpuCall("hv_vcpu_destroy", <<self.handle>>, rets[2])
    IN  [calls |-> exited.calls \o <<call>>,
         panicked |-> ~convert_hv_return(rets[2]).ok]

\* Drop for VirtualCpu; rets are the statuses hv_vcpus_exit and
\* hv_vcpu_destroy answer
drop_VirtualCpu(self, rets) ==
    LET exited == VirtualCpu_exit(self, rets[1])
        call == VcpuCall("hv_vcpu_destroy", <<self.handle>>, rets[2])
    IN  IF ~exited.result.ok THEN [calls |-> exited.calls, panicked |-> TRUE]
        ELSE [calls |-> exited.calls \o <<call>>,
              panicked |-> ~convert_hv_return(rets[2]).ok]

\* the handles hv_vcpu_create hands out
VcpuHandles == 0..(MaxVcpus - 1)

\* what is known of the VirtualCpu with a handle: status is "absent" (not
\* created), "idle" (its thread is outside run), "running" (its thread is
\* inside hv_vcpu_run), "destroyed" or "panicked" (how its drop ended);
\* exit_requested is the forced exit the backend has pending for it, named
\* by where its thread was when it was asked; returned holds the last run
\* (what hv_vcpu_run answered, what it left behind vcpu_exit, and the result
\* of run), forced the forced exit that ended it; dropped_with holds the
\* calls its drop issued
VirtualCpu(status, exit_requested, returned, forced, dropped_with) ==
    [status |-> status, exit_requested |-> exit_requested, returned |-> returned,
     forced |-> forced, dropped_with |-> dropped_with]

NoVirtualCpu == VirtualCpu("absent", "no", <<>>, "no", <<>>)

\* hv_vcpus_exit on the backend: the vCPUs named get a forced exit pending
backend_force_exit(all, handles) ==
    [h \in VcpuHandles |->
        IF \E i \in DOMAIN handles : handles[i] = h
        THEN [all[h] EXCEPT !.exit_requested =
                 IF all[h].status = "running" THEN "while_running"
                 ELSE IF @ = "no" THEN "while_idle" ELSE @]
        ELSE all[h]]

\* hv_vcpus_exit can succeed only on vCPUs that exist
backend_exit_returns(all, handles) ==
    IF \A i \in DOMAIN handles :
          /\ handles[i] \in VcpuHandles
          /\ all[handles[i]].status \in {"idle", "running"}
    THEN BackendStatuses ELSE BackendFailures

-----------------------------------------------------------------------------
(* The inputs the calls are made with.                                     *)

\* allocate(size): 0x1000 and 0x10001
AllocationSizes == {4096, 65537}

\* allocate_from(source)
Sources == {<<64, 0>>}

\* guest addresses 0x20000 and 0x30000
GuestAddresses == {131072, 196608}

Permissions == {EXECUTE, READ_WRITE}

\* allocate(size) on the allocation registry alone: 0, 1, and n * PAGE_SIZE
\* and n * PAGE_SIZE + 1 for n = 1, 2
RegistrySizes == {0, 1, 65536, 65537, 131072, 131073}

\* allocate_from(source) on the allocation registry alone
RegistrySources == {<<>>, <<64, 0>>, <<1, 2, 3>>}

\* the pointers alloc_zeroed returns while the host has memory left
host_allocations(live) == alloc_zeroed_returns(live) \ {NULL}

\* the statuses hv_vcpu_run and the other calls are tried with: the nine
\* named ones, 0xfae94008, 1, 0x4001 and 0xffffffff
StatusCodes ==
    {HV_SUCCESS, HV_ERROR, HV_BUSY, HV_BAD_ARGUMENT, HV_ILLEGAL_GUEST_STATE,
     HV_NO_RESOURCES, HV_NO_DEVICE, HV_DENIED, HV_UNSUPPORTED,
     <<64233, 16392>>, <<0, 1>>, <<0, 16385>>, <<65535, 65535>>}

\* the exit reasons the backend leaves: 0 to 4, 0x10000 and 0xffffffff
ExitReasons ==
    {<<0, 0>>, <<0, 1>>, <<0, 2>>, <<0, 3>>, <<0, 4>>, <<1, 0>>, <<65535, 65535>>}

\* the exception records the backend leaves: syndrome 0x58000000 (an HVC)
\* and 0x2000000, with distinct addresses
ExitExceptions ==
    {hv_vcpu_exit_exception(1476395008, 0, 4096),
     hv_vcpu_exit_exception(33554432, 8192, 12288)}

\* the handle lists exit_vcpus is called with
VcpuHandleLists ==
    {<<>>} \cup {<<h>> : h \in VcpuHandles}
           \cup {<<hk[1], hk[2]>> : hk \in {p \in VcpuHandles \X VcpuHandles :
                                                p[1] # p[2]}}

\* VirtualMachine::new(config): None, or a configuration whose handle is 1
Configurations == {NULL, 1}

\* map and reprotect with any MemoryPermission::new(read, write, execute)
AllPermissions ==
    {MemoryPermission(r, w, x) : r \in BOOLEAN, w \in BOOLEAN, x \in BOOLEAN}

\* the values the counters of the VirtualMachine have reached when the run
\* starts: 0 (a new instance) and 2^64 - 2 (after that many handles)
CounterStarts == {0, U64_MAX - 1}

\* allocation handles passed in: issued ones, 0 and one never issued
AllocationHandles == 0..(MaxAllocations + 1)

\* mapping handles passed in: issued ones, 0 and one never issued
MappingHandles == 0..(MaxMappings + 1)

-----------------------------------------------------------------------------
(* The state machine: one action per public method of VirtualMachine.      *)

RECURSIVE drop_outcomes(_, _)
\* Drop for VirtualMachineAllocation, run on each allocation dropped
drop_outcomes(heap, dropped) ==
    IF dropped = <<>> THEN {heap}
    ELSE UNION {drop_outcomes([live |-> o.live, fault |-> heap.fault \/ o.fault],
                              Tail(dropped)) :
                o \in dealloc_outcomes(heap.live, Head(dropped).base_address)}

\* ret is a status the framework can answer to the call the method issued; a
\* method that issued no call consumed no status (one is fixed, HV_SUCCESS)
Answered(out, ret) ==
    IF out.calls = <<>> THEN ret = HV_SUCCESS
    ELSE backend_accepts(hv_memory, out.calls)

\* the effect of a method call on the state: the fields, the framework, the heap
Effect(out, live) ==
    /\ allocation_counter' = out.self.allocation_counter
    /\ mapping_counter' = out.self.mapping_counter
    /\ allocation_list' = out.self.allocation_list
    /\ mapping_list' = out.self.mapping_list
    /\ hv_memory' = backend_after(hv_memory, out.calls)
    /\ \E heap \in drop_outcomes([live |-> live, fault |-> out.wrote_null],
                                 out.dropped) :
          /\ heap_live' = heap.live
          /\ host_fault' = heap.fault
    /\ UNCHANGED teardown
    /\ UNCHANGED vm_created
    /\ UNCHANGED vcpus

\* VirtualMachine::new succeeded: empty lists, both counters at 0
Init ==
    /\ allocation_counter = 0
    /\ mapping_counter = 0
    /\ allocation_list = <<>>
    /\ mapping_list = <<>>
    /\ hv_memory = {}
    /\ heap_live = {}
    /\ host_fault = FALSE
    /\ issued_allocations = <<>>
    /\ issued_mappings = <<>>
    /\ deallocated = {}
    /\ vm_lifetime = "live"
    /\ drop_calls = <<>>
    /\ vm_created = <<HV_SUCCESS>>
    /\ vcpus = [h \in VcpuHandles |-> NoVirtualCpu]

Allocate ==
    /\ ~host_fault
    /\ vm_lifetime = "live"
    /\ allocation_counter < MaxAllocations
    /\ \E size \in AllocationSizes, base \in host_allocations(heap_live) :
          LET out == allocate(Self, size, base)
          IN  /\ Effect(out, heap_live \cup ({base} \ {NULL}))
              /\ issued_allocations' =
                    IF out.result.ok
                    THEN Append(issued_allocations,
                                [handle |-> out.result.value, size |-> size])
                    ELSE issued_allocations
    /\ UNCHANGED <<issued_mappings, deallocated>>

AllocateFrom ==
    /\ ~host_fault
    /\ vm_lifetime = "live"
    /\ allocation_counter < MaxAllocations
    /\ \E source \in Sources, base \in host_allocations(heap_live) :
          LET out == allocate_from(Self, source, base)
          IN  /\ Effect(out, heap_live \cup ({base} \ {NULL}))
              /\ issued_allocations' =
                    IF out.result.ok
                    THEN Append(issued_allocations,
                                [handle |-> out.result.value, size |-> Len(source)])
                    ELSE issued_allocations
    /\ UNCHANGED <<issued_mappings, deallocated>>

Deallocate ==
    /\ ~host_fault
    /\ vm_lifetime = "live"
    /\ \E allocation_handle \in AllocationHandles :
          LET out == deallocate(Self, allocation_handle)
          IN  /\ Effect(out, heap_live)
              /\ deallocated' = IF out.result.ok
                                THEN deallocated \cup {allocation_handle}
                                ELSE deallocated
    /\ UNCHANGED <<issued_allocations, issued_mappings>>

\* get_allocation_slice takes &self: it gives its result and changes nothing
GetAllocationSlice ==
    /\ ~host_fault
    /\ vm_lifetime = "live"
    /\ \E allocation_handle \in AllocationHandles :
          get_allocation_slice(Self, allocation_handle).ok \in BOOLEAN
    /\ UNCHANGED vars

Map ==
    /\ ~host_fault
    /\ vm_lifetime = "live"
    /\ mapping_counter < MaxMappings
    /\ \E allocation_handle \in AllocationHandles, guest_address \in GuestAddresses,
          permission \in Permissions, ret \in BackendStatuses :
          LET out == map(Self, allocation_handle, guest_address, permission, ret)
          IN  /\ Answered(out, ret)
              /\ Effect(out, heap_live)
              /\ issued_mappings' =
                    IF out.result.ok
                    THEN Append(issued_mappings,
                                [handle |-> out.result.value,
                                 allocation_handle |-> allocation_handle])
                    ELSE issued_mappings
    /\ UNCHANGED <<issued_allocations, deallocated>>

Unmap ==
    /\ ~host_fault
    /\ vm_lifetime = "live"
    /\ \E mapping_handle \in MappingHandles, ret \in BackendStatuses :
          LET out == unmap(Self, mapping_handle, ret)
          IN  /\ Answered(out, ret)
              /\ Effect(out, heap_live)
    /\ UNCHANGED history

Reprotect ==
    /\ ~host_fault
    /\ vm_lifetime = "live"
    /\ \E mapping_handle \in MappingHandles, permission \in Permissions,
          ret \in BackendStatuses :
          LET out == reprotect(Self, mapping_handle, permission, ret)
          IN  /\ Answered(out, ret)
              /\ Effect(out, heap_live)
    /\ UNCHANGED history

\* get_mapping_info takes &self: it gives its result and changes nothing
GetMappingInfo ==
    /\ ~host_fault
    /\ vm_lifetime = "live"
    /\ \E mapping_handle \in MappingHandles :
          get_mapping_info(Self, mapping_handle).ok \in BOOLEAN
    /\ UNCHANGED vars

Next ==
    \/ Allocate
    \/ AllocateFrom
    \/ Deallocate
    \/ GetAllocationSlice
    \/ Map
    \/ Unmap
    \/ Reprotect
    \/ GetMappingInfo

\* the calls made on one VirtualMachine, in any order, while the host
\* allocator has memory left
Spec == Init /\ [][Next]_vars

\* allocate with any size and any answer of alloc_zeroed, the null pointer
\* included
RegistryAllocate ==
    /\ ~host_fault
    /\ vm_lifetime = "live"
    /\ allocation_counter < MaxAllocations
    /\ \E size \in RegistrySizes, base \in alloc_zeroed_returns(heap_live) :
          LET out == allocate(Self, size, base)
          IN  /\ Effect(out, heap_live \cup ({base} \ {NULL}))
              /\ issued_allocations' =
                    IF out.result.ok
                    THEN Append(issued_allocations,
                                [handle |-> out.result.value, size |-> size])
                    ELSE issued_allocations
    /\ UNCHANGED <<issued_mappings, deallocated>>

\* allocate_from with any source and any answer of alloc_zeroed
RegistryAllocateFrom ==
    /\ ~host_fault
    /\ vm_lifetime = "live"
    /\ allocation_counter < MaxAllocations
    /\ \E source \in RegistrySources, base \in alloc_zeroed_returns(heap_live) :
          LET out == allocate_from(Self, source, base)
          IN  /\ Effect(out, heap_live \cup ({base} \ {NULL}))
              /\ issued_allocations' =
                    IF out.result.ok
                    THEN Append(issued_allocations,
                                [handle |-> out.result.value, size |-> Len(source)])
                    ELSE issued_allocations
    /\ UNCHANGED <<issued_mappings, deallocated>>

\* the VirtualMachine goes out of scope: the body of drop runs, and then,
\* unless a panic aborts the process, the fields are dropped, the allocations
\* of the allocation list with them (a panic that unwinds out of drop still
\* drops the fields). mapping_list keeps what it held when the body ended.
DropVirtualMachine ==
    /\ ~host_fault
    /\ vm_lifetime = "live"
    /\ \E rets \in [1..(Len(mapping_list) + 1) -> BackendStatuses],
          unwind \in BOOLEAN :
          LET out == drop_VirtualMachine(Self, rets)
              fields_dropped == ~out.panicked \/ unwind
          IN  /\ backend_accepts(hv_memory, out.calls)
              /\ \A i \in DOMAIN rets : i > Len(out.calls) => rets[i] = HV_SUCCESS
              /\ ~out.panicked => unwind
              /\ allocation_counter' = out.self.allocation_counter
              /\ mapping_counter' = out.self.mapping_counter
              /\ mapping_list' = out.self.mapping_list
              /\ allocation_list' =
                    IF fields_dropped THEN <<>> ELSE out.self.allocation_list
              /\ hv_memory' = backend_after(hv_memory, out.calls)
              /\ \E heap \in drop_outcomes(
                               [live |-> heap_live, fault |-> FALSE],
                               IF fields_dropped THEN out.self.allocation_list
                               ELSE <<>>) :
                    /\ heap_live' = heap.live
                    /\ host_fault' = heap.fault
              /\ vm_lifetime' = IF ~out.panicked THEN "dropped"
                                ELSE IF unwind THEN "unwound" ELSE "aborted"
              /\ drop_calls' = out.calls
    /\ UNCHANGED history
    /\ UNCHANGED vm_created
    /\ UNCHANGED vcpus

NextTeardown ==
    \/ Allocate
    \/ Map
    \/ Unmap
    \/ DropVirtualMachine

\* a VirtualMachine that allocates, maps and unmaps, and its destruction
SpecTeardown == Init /\ [][NextTeardown]_vars

\* the process before it has a VirtualMachine
InitProcess ==
    /\ allocation_counter = 0
    /\ mapping_counter = 0
    /\ allocation_list = <<>>
    /\ mapping_list = <<>>
    /\ hv_memory = {}
    /\ heap_live = {}
    /\ host_fault = FALSE
    /\ issued_allocations = <<>>
    /\ issued_mappings = <<>>
    /\ deallocated = {}
    /\ vm_lifetime = "absent"
    /\ drop_calls = <<>>
    /\ vm_created = <<>>
    /\ vcpus = [h \in VcpuHandles |-> NoVirtualCpu]

\* VirtualMachine::new, while the process has no VirtualMachine: on success
\* the fields are those of the instance returned
NewVirtualMachine ==
    /\ vm_lifetime = "absent"
    /\ Len(vm_created) < MaxConstructions
    /\ \E config \in Configurations, ret \in BackendStatuses :
          LET out == VirtualMachine_new(config, ret)
          IN  /\ vm_created' = Append(vm_created, out.calls[1].ret)
              /\ vm_lifetime' = IF out.result.ok THEN "live" ELSE vm_lifetime
              /\ allocation_counter' = IF out.result.ok
                                       THEN out.result.value.allocation_counter
                                       ELSE allocation_counter
              /\ mapping_counter' = IF out.result.ok
                                    THEN out.result.value.mapping_counter
                                    ELSE mapping_counter
              /\ allocation_list' = IF out.result.ok
                                    THEN out.result.value.allocation_list
                                    ELSE allocation_list
              /\ mapping_list' = IF out.result.ok
                                 THEN out.result.value.mapping_list
                                 ELSE mapping_list
    /\ UNCHANGED <<hv_memory, heap_live, host_fault, drop_calls, vcpus>>
    /\ UNCHANGED history

NextRegistry ==
    \/ RegistryAllocate
    \/ RegistryAllocateFrom
    \/ Deallocate
    \/ GetAllocationSlice

\* the calls made on the allocation registry of one VirtualMachine, with a
\* host allocator that may run out of memory at any call
SpecRegistry == Init /\ [][NextRegistry]_vars

\* create_vcpu on the thread that will run the vCPU; the backend hands out
\* the lowest handle not in use, or fails
CreateVcpu ==
    /\ ~host_fault
    /\ vm_lifetime = "live"
    /\ \E ret \in BackendStatuses :
          LET absent == {h \in VcpuHandles : vcpus[h].status = "absent"}
              vcpu_handle == IF absent = {} THEN 0 ELSE Min(absent)
              out == create_vcpu(vcpu_handle, ret)
          IN  /\ absent = {} => ret # HV_SUCCESS
              /\ vcpus' = IF out.result.ok
                          THEN [vcpus EXCEPT ![out.result.value.handle] =
                                   VirtualCpu("idle", "no", <<>>, "no", <<>>)]
                          ELSE vcpus
    /\ UNCHANGED vm_vars

\* the thread of the vCPU calls run and blocks inside hv_vcpu_run
RunCall(h) ==
    /\ vcpus[h].status = "idle"
    /\ vcpus' = [vcpus EXCEPT ![h].status = "running",
                              ![h].returned = <<>>,
                              ![h].forced = "no"]
    /\ UNCHANGED vm_vars

\* hv_vcpu_run returns and run gives its result: with a forced exit pending
\* the backend answers HV_SUCCESS and leaves the reason
\* HV_EXIT_REASON_CANCELED, otherwise it answers what the guest did; it
\* fills the exception record for the reason HV_EXIT_REASON_EXCEPTION
RunReturn(h) ==
    /\ vcpus[h].status = "running"
    /\ \E ret \in BackendStatuses, reason \in ExitReasons,
          exception \in ExitExceptions \cup {NoPayload} :
          LET out == VirtualCpu_run([handle |-> h], ret,
                                    hv_vcpu_exit(reason, exception))
          IN  /\ vcpus[h].exit_requested # "no" =>
                    ret = HV_SUCCESS /\ reason = HV_EXIT_REASON_CANCELED
              /\ ret # HV_SUCCESS => reason = HV_EXIT_REASON_CANCELED
              /\ (reason = HV_EXIT_REASON_EXCEPTION) <=> (exception # NoPayload)
              /\ vcpus' = [vcpus EXCEPT ![h].status = "idle",
                                        ![h].exit_requested = "no",
                                        ![h].returned =
                                            <<[ret |-> ret,
                                               vcpu_exit |->
                                                   hv_vcpu_exit(reason, exception),
                                               result |-> out.result]>>,
                                        ![h].forced = vcpus[h].exit_requested]
    /\ UNCHANGED vm_vars

\* the return of a run that has a forced exit pending
ForcedReturn(h) ==
    /\ vcpus[h].exit_requested # "no"
    /\ RunReturn(h)

\* exit() on the VirtualCpu: from its own thread while idle, from another
\* thread while its own thread is blocked in run
VcpuExit(h) ==
    /\ vcpus[h].status \in {"idle", "running"}
    /\ \E ret \in BackendStatuses :
          LET out == VirtualCpu_exit([handle |-> h], ret)
          IN  /\ ret \in backend_exit_returns(vcpus, out.calls[1].vcpus)
              /\ vcpus' = IF out.result.ok
                          THEN backend_force_exit(vcpus, out.calls[1].vcpus)
                          ELSE vcpus
    /\ UNCHANGED vm_vars

\* exit_vcpus on the VirtualMachine with a list of vCPU handles
ExitVcpus ==
    /\ ~host_fault
    /\ vm_lifetime = "live"
    /\ \E handles \in VcpuHandleLists, ret \in BackendStatuses :
          LET out == exit_vcpus(handles, ret)
          IN  /\ ret \in backend_exit_returns(vcpus, out.calls[1].vcpus)
              /\ vcpus' = IF out.result.ok
                          THEN backend_force_exit(vcpus, out.calls[1].vcpus)
                          ELSE vcpus
    /\ UNCHANGED vm_vars

\* the VirtualCpu goes out of scope on its thread
DropVcpu(h) ==
    /\ vcpus[h].status = "idle"
    /\ \E rets \in [1..2 -> BackendStatuses] :
          LET out == drop_VirtualCpu([handle |-> h], rets)
          IN  /\ rets[1] \in backend_exit_returns(vcpus, out.calls[1].vcpus)
              /\ Len(out.calls) < 2 => rets[2] = HV_SUCCESS
              /\ vcpus' = [vcpus EXCEPT ![h] =
                              VirtualCpu(IF out.panicked THEN "panicked"
                                         ELSE "destroyed",
                                         "no", <<>>, "no", out.calls)]
    /\ UNCHANGED vm_vars

NextVcpu ==
    \/ CreateVcpu
    \/ ExitVcpus
    \/ \E h \in VcpuHandles :
          \/ RunCall(h)
          \/ RunReturn(h)
          \/ VcpuExit(h)
          \/ DropVcpu(h)

\* the vCPUs of one VirtualMachine, each driven by its own thread, with
\* forced exits asked from any thread; a run with a forced exit pending
\* returns (hv_vcpus_exit forces an immediate exit)
SpecVcpu ==
    /\ Init
    /\ [][NextVcpu]_vars
    /\ \A h \in VcpuHandles : WF_vars(ForcedReturn(h))

\* a VirtualMachine without mappings whose counters have reached any of the
\* values of CounterStarts (one that issued and released that many handles)
InitCounters ==
    /\ allocation_counter \in CounterStarts
    /\ mapping_counter \in CounterStarts
    /\ allocation_list = <<>>
    /\ mapping_list = <<>>
    /\ hv_memory = {}
    /\ heap_live = {}
    /\ host_fault = FALSE
    /\ issued_allocations = <<>>
    /\ issued_mappings = <<>>
    /\ deallocated = {}
    /\ vm_lifetime = "live"
    /\ drop_calls = <<>>
    /\ vm_created = <<HV_SUCCESS>>
    /\ vcpus = [h \in VcpuHandles |-> NoVirtualCpu]

\* allocate in a build with overflow checks, the counter at u64::MAX: the
\* increment panics after VirtualMachineAllocation::new; the unwinding drops
\* the new allocation, and the VirtualMachine is as it was
AllocatePanics ==
    /\ ~host_fault
    /\ vm_lifetime = "live"
    /\ add_overflows(allocation_counter)
    /\ host_allocations(heap_live) # {}
    /\ UNCHANGED vars

\* map in a build with overflow checks, the counter at u64::MAX: hv_vm_map
\* has succeeded when the increment panics, and no record is pushed
MapPanics ==
    /\ ~host_fault
    /\ vm_lifetime = "live"
    /\ add_overflows(mapping_counter)
    /\ \E allocation_handle \in AllocationHandles, guest_address \in GuestAddresses,
          permission \in Permissions :
          LET out == map(Self, allocation_handle, guest_address, permission,
                         HV_SUCCESS)
          IN  /\ out.result.ok
              /\ backend_accepts(hv_memory, out.calls)
              /\ hv_memory' = backend_after(hv_memory, out.calls)
    /\ UNCHANGED <<vm_fields, heap_live, host_fault, teardown, vm_created, vcpus>>
    /\ UNCHANGED history

NextCounters ==
    \/ Allocate
    \/ AllocatePanics
    \/ Map
    \/ MapPanics

\* allocate and map on a VirtualMachine whose counters are at the start or
\* near the end of the u64 range, in a build with or without overflow checks
SpecCounters == InitCounters /\ [][NextCounters]_vars

\* map with any of the eight permissions
MapPermission ==
    /\ ~host_fault
    /\ vm_lifetime = "live"
    /\ mapping_counter < MaxMappings
    /\ \E allocation_handle \in AllocationHandles, guest_address \in GuestAddresses,
          permission \in AllPermissions, ret \in BackendStatuses :
          LET out == map(Self, allocation_handle, guest_address, permission, ret)
          IN  /\ Answered(out, ret)
              /\ Effect(out, heap_live)
              /\ issued_mappings' =
                    IF out.result.ok
                    THEN Append(issued_mappings,
                                [handle |-> out.result.value,
                                 allocation_handle |-> allocation_handle])
                    ELSE issued_mappings
    /\ UNCHANGED <<issued_allocations, deallocated>>

\* reprotect with any of the eight permissions
ReprotectPermission ==
    /\ ~host_fault
    /\ vm_lifetime = "live"
    /\ \E mapping_handle \in MappingHandles, permission \in AllPermissions,
          ret \in BackendStatuses :
          LET out == reprotect(Self, mapping_handle, permission, ret)
          IN  /\ Answered(out, ret)
              /\ Effect(out, heap_live)
    /\ UNCHANGED history

NextPermissions ==
    \/ AllocateFrom
    \/ MapPermission
    \/ ReprotectPermission
    \/ Unmap

\* a VirtualMachine whose mappings are made and changed with every
\* combination of the three permission flags
SpecPermissions == Init /\ [][NextPermissions]_vars

NextLifecycle ==
    \/ NewVirtualMachine
    \/ AllocateFrom
    \/ Map
    \/ Unmap
    \/ DropVirtualMachine

\* a process that calls VirtualMachine::new until it has a VirtualMachine,
\* loads and maps memory, and lets the VirtualMachine go out of scope
SpecLifecycle == InitProcess /\ [][NextLifecycle]_vars

NextOwnership ==
    \/ CreateVcpu
    \/ DropVirtualMachine
    \/ \E h \in VcpuHandles : DropVcpu(h)

\* a VirtualMachine and the VirtualCpus created through it, each going out
\* of scope when its owner lets it: create_vcpu returns a VirtualCpu that
\* borrows nothing from the VirtualMachine, so the two can be dropped in
\* any order
SpecOwnership == Init /\ [][NextOwnership]_vars

-----------------------------------------------------------------------------
(* What the properties speak about.                                        *)

\* the allocation handles returned so far by allocate / allocate_from
IssuedAllocationHandles ==
    {issued_allocations[i].handle : i \in DOMAIN issued_allocations}

\* the mapping handles returned so far by map
IssuedMappingHandles ==
    {issued_mappings[i].handle : i \in DOMAIN issued_mappings}

\* the handles for which get_allocation_slice succeeds
SliceHandles ==
    {h \in AllocationHandles : get_allocation_slice(Self, h).ok}

\* the allocation handle is in the allocation list
Allocated(h) == \E i \in DOMAIN allocation_list : allocation_list[i].handle = h

\* the mapping handle is in the mapping list
Mapped(mh) == \E i \in DOMAIN mapping_list : mapping_list[i].mapping_handle = mh

\* the positions of the mapping records that reference the allocation
MappingsOf(list, h) == {i \in DOMAIN list : list[i].allocation_handle = h}

\* how many times map returned a handle for the allocation
TimesMapped(h) ==
    Cardinality({i \in DOMAIN issued_mappings :
                    issued_mappings[i].allocation_handle = h})

\* the call failed with the error and did nothing else
Refused(out, self, error) == out = Outcome(self, Err(error), <<>>, <<>>)

-----------------------------------------------------------------------------
(* Properties.                                                             *)

\* C1: after any sequence of allocate, allocate_from and deallocate calls,
\* the handles for which get_allocation_slice succeeds are exactly the
\* handles returned by allocate / allocate_from minus those on which
\* deallocate returned Ok.
C1_SliceHandlesAreIssuedMinusDeallocated ==
    SliceHandles = IssuedAllocationHandles \ deallocated

\* C1 witness: no mapping was ever made, one handle was deallocated and
\* another, made by allocate_from, is still live.
C1_Witness ==
    /\ mapping_counter = 0
    /\ issued_mappings = <<>>
    /\ deallocated # {}
    /\ \E i \in DOMAIN allocation_list :
          /\ allocation_list[i].prefix # <<>>
          /\ allocation_list[i].handle \in SliceHandles
    /\ SliceHandles # IssuedAllocationHandles

\* C2: deallocate(h) on an allocation referenced by at least one mapping
\* record returns AllocationStillMapped and changes neither list; with k
\* mappings it keeps failing while one is left (a failed unmap leaves it
\* failing, a successful unmap of one of k > 1 too), and after the last
\* successful unmap deallocate(h) returns Ok.
C2_DeallocateBlockedWhileMapped ==
    /\ \A h \in AllocationHandles :
          Allocated(h) =>
             IF MappingsOf(mapping_list, h) # {}
             THEN Refused(deallocate(Self, h), Self, AllocationStillMapped)
             ELSE deallocate(Self, h).result = Ok(0)
    /\ \A i \in DOMAIN mapping_list, ret \in BackendStatuses :
          LET m == mapping_list[i]
              h == m.allocation_handle
              after == unmap(Self, m.mapping_handle, ret).self
              left == MappingsOf(after.mapping_list, h)
          IN  /\ Cardinality(left) =
                    IF ret = HV_SUCCESS
                    THEN Cardinality(MappingsOf(mapping_list, h)) - 1
                    ELSE Cardinality(MappingsOf(mapping_list, h))
              /\ deallocate(after, h).result =
                    IF left = {} THEN Ok(0) ELSE Err(AllocationStillMapped)

\* C2 witness: an allocation that map returned two handles for has been
\* deallocated (both mappings were unmapped first), and deallocate on the
\* allocation still live succeeds.
C2_Witness ==
    /\ \E h \in deallocated : TimesMapped(h) >= 2
    /\ \E h \in AllocationHandles :
          Allocated(h) /\ deallocate(Self, h).result = Ok(0)

\* C3: deallocate(h) for a handle that is not in the allocation list (never
\* issued, or already deallocated) returns InvalidHandle, leaves both lists
\* and both counters unchanged and drops no allocation; no host block is
\* released twice.
C3_DeallocateUnknownHandle ==
    /\ \A h \in AllocationHandles :
          ~Allocated(h) => Refused(deallocate(Self, h), Self, InvalidHandle)
    /\ ~host_fault

\* C3 witness: a handle was deallocated (so a second deallocate of it is
\* refused), another was never issued, and an allocation is still live.
C3_Witness ==
    /\ allocation_list # <<>>
    /\ \E h \in deallocated :
          deallocate(Self, h).result = Err(InvalidHandle)
    /\ \E h \in AllocationHandles \ IssuedAllocationHandles :
          deallocate(Self, h).result = Err(InvalidHandle)

\* C4: handles are never reused: all AllocationHandle values ever returned
\* are pairwise distinct, and all MappingHandle values ever returned are
\* pairwise distinct, also those issued after earlier ones were retired.
C4_HandlesNeverReused ==
    /\ \A i, j \in DOMAIN issued_allocations :
          i # j => issued_allocations[i].handle # issued_allocations[j].handle
    /\ \A i, j \in DOMAIN issued_mappings :
          i # j => issued_mappings[i].handle # issued_mappings[j].handle

\* C4 witness: the second allocation handle was issued after the first was
\* deallocated (the live allocation sits in host block 1, which the allocator
\* hands out again only once the first allocation freed it), and the second
\* mapping handle was issued with the first one retired.
C4_Witness ==
    /\ Len(issued_allocations) = 2
    /\ issued_allocations[1].handle \in deallocated
    /\ \E i \in DOMAIN allocation_list :
          /\ allocation_list[i].handle = issued_allocations[2].handle
          /\ allocation_list[i].base_address = 1
    /\ Len(issued_mappings) = 2
    /\ ~Mapped(issued_mappings[1].handle)
    /\ Mapped(issued_mappings[2].handle)

\* the registry side of a call that the backend failed with status ret: the
\* error is the converted status, the mapping list and the mapping counter
\* are as before, and a map that succeeds next returns the handle it would
\* have returned without the failed call
FailedAtomically(out, ret) ==
    /\ out.result = Err(HypervisorErrorFrom(ret))
    /\ out.self.mapping_list = mapping_list
    /\ out.self.mapping_counter = mapping_counter
    /\ \/ out.self = Self
       \/ \A h \in AllocationHandles, a \in GuestAddresses, p \in Permissions :
             map(out.self, h, a, p, HV_SUCCESS).result =
                map(Self, h, a, p, HV_SUCCESS).result

\* C5: map, unmap and reprotect are atomic with respect to backend failure:
\* whenever hv_vm_map, hv_vm_unmap or hv_vm_protect returns a non-success
\* status, the operation returns that error and the mapping list and the
\* mapping counter are unchanged.
C5_BackendFailureIsAtomic ==
    \A ret \in BackendFailures :
       /\ \A h \in AllocationHandles, a \in GuestAddresses, p \in Permissions :
             LET out == map(Self, h, a, p, ret)
             IN  out.calls # <<>> => FailedAtomically(out, ret)
       /\ \A mh \in MappingHandles :
             LET out == unmap(Self, mh, ret)
             IN  out.calls # <<>> => FailedAtomically(out, ret)
       /\ \A mh \in MappingHandles, p \in Permissions :
             LET out == reprotect(Self, mh, p, ret)
             IN  out.calls # <<>> => FailedAtomically(out, ret)

\* C5 witness: one mapping is recorded and one more handle can be issued;
\* hv_vm_map, hv_vm_unmap and hv_vm_protect are each called and fail.
C5_Witness ==
    /\ Len(mapping_list) = 1
    /\ mapping_counter = 1
    /\ \E h \in AllocationHandles, a \in GuestAddresses, p \in Permissions :
          LET out == map(Self, h, a, p, HV_ERROR)
          IN  out.calls # <<>> /\ ~out.result.ok
    /\ \E mh \in MappingHandles, p \in Permissions :
          /\ unmap(Self, mh, HV_NO_RESOURCES).calls # <<>>
          /\ ~unmap(Self, mh, HV_NO_RESOURCES).result.ok
          /\ reprotect(Self, mh, p, HV_ERROR).calls # <<>>
          /\ ~reprotect(Self, mh, p, HV_ERROR).result.ok

\* the guest ranges of the mapping list, with the flags of their permission
RegistryRanges ==
    {[ipa |-> mapping_list[i].address, size |-> mapping_list[i].size,
      flags |-> hv_memory_flags_from(mapping_list[i].permission)] :
        i \in DOMAIN mapping_list}

\* the guest ranges the backend accepted and has not released
BackendRanges ==
    {[ipa |-> m.ipa, size |-> m.size, flags |-> m.flags] : m \in hv_memory}

\* C6: registry and backend agree in every state reachable by map, unmap and
\* reprotect calls that the backend answers with success or failure: the
\* (guest address, size, permission) records of the mapping list are the
\* guest ranges the backend accepted through hv_vm_map and has not released
\* through a successful hv_vm_unmap, with the permission it last accepted.
C6_RegistryAgreesWithBackend == RegistryRanges = BackendRanges

\* C6 witness: two maps succeeded, one of the two mappings was unmapped, and
\* the range left is held with the flags of EXECUTE by registry and backend.
C6_Witness ==
    /\ mapping_counter = 2
    /\ Len(mapping_list) = 1
    /\ Cardinality(hv_memory) = 1
    /\ \E m \in hv_memory : m.flags = HV_MEMORY_EXEC

\* C7: no dangling guest mapping: every record of the mapping list has an
\* allocation_handle that is in the allocation list, and the host block of
\* that allocation (the one the backend maps) has not been freed.
C7_NoDanglingMapping ==
    /\ \A i \in DOMAIN mapping_list :
          \E j \in DOMAIN allocation_list :
             /\ allocation_list[j].handle = mapping_list[i].allocation_handle
             /\ allocation_list[j].base_address \in heap_live
    /\ \A m \in hv_memory : m.address \in heap_live

\* C7 witness: one allocation was deallocated while a mapping of the other
\* one is recorded.
C7_Witness ==
    /\ deallocated # {}
    /\ mapping_list # <<>>
    /\ Cardinality(heap_live) = 1

\* C8: after a successful reprotect(m, P), get_mapping_info(m) returns a
\* record whose permission is P and whose other fields are as before; every
\* other mapping record and the allocation list are unchanged.
C8_ReprotectFrame ==
    \A i \in DOMAIN mapping_list, p \in Permissions :
       LET before == mapping_list[i]
           out == reprotect(Self, before.mapping_handle, p, HV_SUCCESS)
       IN  /\ out.result = Ok(0)
           /\ get_mapping_info(out.self, before.mapping_handle) =
                 Ok([before EXCEPT !.permission = p])
           /\ Len(out.self.mapping_list) = Len(mapping_list)
           /\ \A j \in DOMAIN mapping_list :
                 j # i => out.self.mapping_list[j] = mapping_list[j]
           /\ out.self.allocation_list = allocation_list

\* C8 witness: two mappings are recorded and the second, which is EXECUTE,
\* is made READ_WRITE.
C8_Witness ==
    /\ Len(mapping_list) = 2
    /\ mapping_list[2].permission = EXECUTE
    /\ get_mapping_info(reprotect(Self, mapping_list[2].mapping_handle,
                                  READ_WRITE, HV_SUCCESS).self,
                        mapping_list[2].mapping_handle).value.permission
          = READ_WRITE

\* the mapping records of the scenario: an allocation made by
\* allocate(0x1000), mapped at guest address 0x20000 with EXECUTE
ScenarioMappings ==
    {i \in DOMAIN mapping_list :
        /\ mapping_list[i].address = 131072
        /\ mapping_list[i].permission = EXECUTE
        /\ \E k \in DOMAIN issued_allocations :
              /\ issued_allocations[k].handle = mapping_list[i].allocation_handle
              /\ issued_allocations[k].size = 4096}

\* C9 as stated: after allocate(0x1000) and a successful map at 0x20000 with
\* EXECUTE, get_mapping_info yields address 0x20000, size 0x1000 and
\* permission Execute.
C9_AsStated ==
    \A i \in ScenarioMappings :
       LET info == get_mapping_info(Self, mapping_list[i].mapping_handle)
       IN  /\ info.ok
           /\ info.value.address = 131072
           /\ info.value.size = 4096
           /\ info.value.permission = MemoryPermission(FALSE, FALSE, TRUE)

\* C9 amended: after allocate(0x1000) and a successful map at 0x20000 with
\* EXECUTE, get_mapping_info yields address 0x20000, size 0x10000 (0x1000
\* rounded up to PAGE_SIZE) and permission Execute.
C9_ScenarioMappingInfo ==
    \A i \in ScenarioMappings :
       LET info == get_mapping_info(Self, mapping_list[i].mapping_handle)
       IN  /\ info.ok
           /\ info.value.address = 131072
           /\ info.value.size = 65536
           /\ info.value.permission = MemoryPermission(FALSE, FALSE, TRUE)

\* C9 witness: the mapping of the scenario is recorded.
C9_Witness == ScenarioMappings # {}

\* C10: a mapping handle that is not in the mapping list (never issued, or
\* retired by a successful unmap) is invalid for every mapping operation:
\* get_mapping_info, unmap and reprotect return InvalidHandle, issue no
\* backend call and change no state.
C10_InvalidMappingHandle ==
    \A mh \in MappingHandles :
       ~Mapped(mh) =>
          /\ get_mapping_info(Self, mh) = Err(InvalidHandle)
          /\ \A ret \in BackendStatuses :
                Refused(unmap(Self, mh, ret), Self, InvalidHandle)
          /\ \A ret \in BackendStatuses, p \in Permissions :
                Refused(reprotect(Self, mh, p, ret), Self, InvalidHandle)

\* C10 witness: a mapping was unmapped and another is recorded; unmap on the
\* retired handle issues no backend call, and so does unmap on a handle
\* never issued.
C10_Witness ==
    /\ mapping_list # <<>>
    /\ \E mh \in IssuedMappingHandles :
          /\ ~Mapped(mh)
          /\ unmap(Self, mh, HV_SUCCESS).calls = <<>>
          /\ unmap(Self, mh, HV_SUCCESS).result = Err(InvalidHandle)
    /\ \E mh \in MappingHandles \ IssuedMappingHandles :
          unmap(Self, mh, HV_SUCCESS).calls = <<>>

\* C13: map(a, addr, perm) with an allocation handle a that is not in the
\* allocation list returns InvalidHandle, issues no hv_vm_map, adds no
\* mapping record and does not advance the mapping counter.
C13_MapUnknownAllocation ==
    \A h \in AllocationHandles :
       ~Allocated(h) =>
          \A a \in GuestAddresses, p \in Permissions, ret \in BackendStatuses :
             LET out == map(Self, h, a, p, ret)
             IN  /\ out.result = Err(InvalidHandle)
                 /\ out.calls = <<>>
                 /\ out.self.mapping_list = mapping_list
                 /\ out.self.mapping_counter = mapping_counter
                 /\ out.self.allocation_list = allocation_list

\* C13 witness: an allocation is mapped, another one was deallocated, and
\* map on the deallocated handle and on a handle never issued is refused
\* while map on the live one would reach hv_vm_map.
C13_Witness ==
    /\ mapping_list # <<>>
    /\ mapping_counter < MaxMappings
    /\ \E h \in deallocated :
          map(Self, h, 196608, EXECUTE, HV_SUCCESS).result = Err(InvalidHandle)
    /\ \E h \in AllocationHandles \ IssuedAllocationHandles :
          map(Self, h, 196608, EXECUTE, HV_SUCCESS).result = Err(InvalidHandle)
    /\ \E h \in AllocationHandles :
          map(Self, h, 196608, EXECUTE, HV_SUCCESS).calls # <<>>

\* byte i (from 1) of a slice: the bytes written at its start, then the zeroes
\* alloc_zeroed left
SliceByte(slice, i) ==
    IF i <= Len(slice.prefix) THEN slice.prefix[i] ELSE 0

\* n is size rounded up to the smallest multiple of PAGE_SIZE not below it
IsRoundedUp(n, size) ==
    /\ n % PAGE_SIZE = 0
    /\ n >= size
    /\ n - size < PAGE_SIZE

\* C11: for every byte sequence b (the empty one included, and lengths that
\* are not a multiple of the page size), allocate_from(b) followed by
\* get_allocation_slice on the handle returned yields a slice of the
\* rounded-up size whose first len(b) bytes are b and whose other bytes are
\* all zero. (A call that writes b through a null pointer does not return.)
C11_AllocateFromContents ==
    \A source \in RegistrySources, base \in alloc_zeroed_returns(heap_live) :
       LET out == allocate_from(Self, source, base)
           slice == get_allocation_slice(out.self, out.result.value)
       IN  ~out.wrote_null =>
              /\ out.result.ok
              /\ slice.ok
              /\ IsRoundedUp(slice.value.len, Len(source))
              /\ Len(slice.value.prefix) <= slice.value.len
              /\ \A i \in 1..Len(source) : SliceByte(slice.value, i) = source[i]
              /\ \A i \in DOMAIN slice.value.prefix :
                    i > Len(source) => SliceByte(slice.value, i) = 0
              /\ SliceByte(slice.value, Len(source) + 1) = 0

\* C11 witness: an allocation made from <<1, 2, 3>> lives in a host block
\* that an earlier allocation used and freed, an allocation of zero bytes was
\* made, and the process is running.
C11_Witness ==
    /\ ~host_fault
    /\ deallocated # {}
    /\ \E i \in DOMAIN allocation_list :
          /\ allocation_list[i].prefix = <<1, 2, 3>>
          /\ allocation_list[i].base_address = 1
          /\ allocation_list[i].handle = 2
    /\ \E k \in DOMAIN issued_allocations : issued_allocations[k].size = 0

\* C12 as stated: allocate(size) fails with NoResources when the host memory
\* reservation fails (alloc_zeroed returns the null pointer), adding no
\* record and consuming no handle; in every other case it succeeds; in
\* neither case is the backend contacted. Read on the steps: a step that is
\* allocate(size) with the answer base of alloc_zeroed has that result.
C12_AsStated ==
    [][\A size \in RegistrySizes, base \in alloc_zeroed_returns(heap_live) :
          LET out == allocate(Self, size, base)
          IN  (/\ allocation_counter' = out.self.allocation_counter
               /\ allocation_list' = out.self.allocation_list
               /\ heap_live' = heap_live \cup ({base} \ {NULL}))
              => /\ out.calls = <<>>
                 /\ IF base = NULL
                    THEN Refused(out, Self, HvError("NoResources"))
                    ELSE out.result.ok]_vars

\* C14: the length get_allocation_slice returns for an allocation is the
\* requested size rounded up to the smallest multiple of PAGE_SIZE that is
\* greater than or equal to it: a multiple is unchanged, and n * PAGE_SIZE + 1
\* gives (n + 1) * PAGE_SIZE.
C14_SizeRoundedUpToPage ==
    \A k \in DOMAIN issued_allocations :
       LET size == issued_allocations[k].size
           slice == get_allocation_slice(Self, issued_allocations[k].handle)
       IN  slice.ok =>
              /\ IsRoundedUp(slice.value.len, size)
              /\ size % PAGE_SIZE = 0 => slice.value.len = size
              /\ size % PAGE_SIZE = 1 =>
                    slice.value.len = ((size \div PAGE_SIZE) + 1) * PAGE_SIZE

\* C14 witness: allocations asked with 0x10000 and with 0x20001 bytes are
\* live, and their slices have 0x10000 and 0x30000 bytes.
C14_Witness ==
    /\ \E k \in DOMAIN issued_allocations :
          /\ issued_allocations[k].size = 65536
          /\ get_allocation_slice(Self, issued_allocations[k].handle).ok
          /\ get_allocation_slice(Self, issued_allocations[k].handle).value.len
                = 65536
    /\ \E k \in DOMAIN issued_allocations :
          /\ issued_allocations[k].size = 131073
          /\ get_allocation_slice(Self, issued_allocations[k].handle).ok
          /\ get_allocation_slice(Self, issued_allocations[k].handle).value.len
                = 196608

\* the hv_vm_unmap calls of a call sequence that release the guest range of
\* the mapping
UnmapsOf(calls, mapping) ==
    {i \in DOMAIN calls :
        /\ calls[i].fn = "hv_vm_unmap"
        /\ calls[i].ipa = mapping.address
        /\ calls[i].size = mapping.size}

\* the positions of the hv_vm_destroy calls of a call sequence
DestroysOf(calls) == {i \in DOMAIN calls : calls[i].fn = "hv_vm_destroy"}

\* the step is the destruction of the VirtualMachine
IsDrop == vm_lifetime = "live" /\ vm_lifetime' # "live"

\* C15: when a VirtualMachine holding n >= 0 mappings is destroyed and every
\* backend call succeeds, hv_vm_unmap is issued exactly once for each of the
\* n mappings (no lookup of a snapshot handle fails: nothing panics), all n
\* unmap calls come before hv_vm_destroy, hv_vm_destroy is issued exactly
\* once, and the mapping list is empty when it is issued.
C15_DropUnmapsAllThenDestroys ==
    [][(IsDrop /\ \A i \in DOMAIN drop_calls' : drop_calls'[i].ret = HV_SUCCESS)
       => LET n == Len(mapping_list)
          IN  /\ vm_lifetime' = "dropped"
              /\ \A j \in DOMAIN mapping_list :
                    Cardinality(UnmapsOf(drop_calls', mapping_list[j])) = 1
              /\ Cardinality({i \in DOMAIN drop_calls' :
                                 drop_calls'[i].fn = "hv_vm_unmap"}) = n
              /\ DestroysOf(drop_calls') = {n + 1}
              /\ Len(drop_calls') = n + 1
              /\ mapping_list' = <<>>
              /\ hv_memory' = {}]_vars

\* C15 witness: a VirtualMachine with two mappings has been destroyed, with
\* three backend calls that all succeeded.
C15_Witness ==
    /\ vm_lifetime = "dropped"
    /\ Len(drop_calls) = 3
    /\ drop_calls[1].fn = "hv_vm_unmap"
    /\ drop_calls[2].fn = "hv_vm_unmap"
    /\ drop_calls[3].fn = "hv_vm_destroy"
    /\ \A i \in DOMAIN drop_calls : drop_calls[i].ret = HV_SUCCESS

\* C16 as stated: a backend failure during the teardown is fatal and leaves
\* nothing inconsistent behind: if an hv_vm_unmap issued by the destructor or
\* hv_vm_destroy fails, the destructor panics; after a failed unmap no
\* further unmap and no hv_vm_destroy is issued; and no host buffer of an
\* allocation whose mapping is still active in the backend is released.
C16_AsStated ==
    vm_lifetime # "live" =>
       /\ (\E i \in DOMAIN drop_calls : drop_calls[i].ret # HV_SUCCESS)
             => vm_lifetime \in {"unwound", "aborted"}
       /\ \A i \in DOMAIN drop_calls :
             drop_calls[i].ret # HV_SUCCESS => i = Len(drop_calls)
       /\ \A m \in hv_memory : m.address \in heap_live

\* C17: destroying a VirtualCpu first issues a forced exit for its handle
\* (hv_vcpus_exit with that single handle) and only then hv_vcpu_destroy for
\* the same handle; if the forced exit fails the drop panics and
\* hv_vcpu_destroy is not issued, and if hv_vcpu_destroy fails the drop
\* panics.
C17_VcpuDropExitsThenDestroys ==
    \A h \in VcpuHandles :
       vcpus[h].status \in {"destroyed", "panicked"} =>
          LET calls == vcpus[h].dropped_with
          IN  /\ Len(calls) >= 1
              /\ calls[1].fn = "hv_vcpus_exit"
              /\ calls[1].vcpus = <<h>>
              /\ IF calls[1].ret # HV_SUCCESS
                 THEN Len(calls) = 1 /\ vcpus[h].status = "panicked"
                 ELSE /\ Len(calls) = 2
                      /\ calls[2].fn = "hv_vcpu_destroy"
                      /\ calls[2].vcpus = <<h>>
                      /\ (vcpus[h].status = "panicked")
                            <=> (calls[2].ret # HV_SUCCESS)

\* C17 witness: vCPU 0 was destroyed with both calls succeeding, and the
\* drop of vCPU 1 panicked at the forced exit.
C17_Witness ==
    /\ vcpus[0].status = "destroyed"
    /\ Len(vcpus[0].dropped_with) = 2
    /\ vcpus[1].status = "panicked"
    /\ Len(vcpus[1].dropped_with) = 1

\* a run of the vCPU returned Ok(Cancelled)
ReturnedCancelled(h) ==
    /\ vcpus[h].status = "idle"
    /\ vcpus[h].returned # <<>>
    /\ vcpus[h].returned[1].result = Ok(Cancelled)

C19_ExitReasonDecoding ==
    \A h \in VcpuHandles :
       (vcpus[h].returned # <<>> /\ vcpus[h].returned[1].ret = HV_SUCCESS) =>
          LET left == vcpus[h].returned[1].vcpu_exit
              result == vcpus[h].returned[1].result
          IN  /\ result.ok
              /\ result.value.kind \in
                    {"Cancelled", "Exception", "VTimerActivated", "Unknown"}
              /\ left.reason = <<0, 0>> => result.value.kind = "Cancelled"
              /\ left.reason = <<0, 1>> =>
                    /\ result.value.kind = "Exception"
                    /\ result.value.exception.syndrome = left.exception.syndrome
                    /\ result.value.exception.virtual_address =
                          left.exception.virtual_address
                    /\ result.value.exception.physical_address =
                          left.exception.physical_address
              /\ left.reason = <<0, 2>> => result.value.kind = "VTimerActivated"
              /\ left.reason \notin {<<0, 0>>, <<0, 1>>, <<0, 2>>} =>
                    result.value.kind = "Unknown"

\* C19 witness: one run returned the Exception of an HVC, with its
\* addresses, and another returned Unknown for the reason 0x10000.
C19_Witness ==
    /\ vcpus[0].returned # <<>>
    /\ vcpus[0].returned[1].result =
          Ok(Exception(hv_vcpu_exit_exception(1476395008, 0, 4096)))
    /\ vcpus[1].returned # <<>>
    /\ vcpus[1].returned[1].vcpu_exit.reason = <<1, 0>>
    /\ vcpus[1].returned[1].result = Ok(Unknown)

\* the error the claim names for a non-zero status code, the code written
\* <<high 16 bits, low 16 bits>>: 0xfae9 is 64233, 0x4001 is 16385
NamedError(code) ==
    CASE code = <<64233, 16385>> -> HvError("Error")
      [] code = <<64233, 16386>> -> HvError("Busy")
      [] code = <<64233, 16387>> -> HvError("BadArgument")
      [] code = <<64233, 16388>> -> HvError("IllegalGuestState")
      [] code = <<64233, 16389>> -> HvError("NoResources")
      [] code = <<64233, 16390>> -> HvError("NoDevice")
      [] code = <<64233, 16391>> -> HvError("Denied")
      [] code = <<64233, 16399>> -> HvError("Unsupported")
      [] OTHER -> [kind |-> "Unknown", code |-> code]

\* the method issued one backend call and, if the call failed with the
\* code, returned the error the claim names for it
PassedThrough(result, calls, code) ==
    /\ Len(calls) = 1
    /\ calls[1].ret = code
    /\ code # <<0, 0>> => result = Err(NamedError(code))
    /\ code = <<0, 0>> => result.ok

\* C20: backend status codes are passed through verbatim by every fallible
\* operation: status 0 yields Ok; 0xfae94001..0xfae94007 yield Error, Busy,
\* BadArgument, IllegalGuestState, NoResources, NoDevice, Denied;
\* 0xfae9400f yields Unsupported; any other non-zero code c yields
\* Unknown(c); the conversion never yields InvalidHandle or
\* AllocationStillMapped; and no operation retries a failed backend call
\* (each issues its call once).
C20_StatusPassedThrough ==
    \A code \in StatusCodes :
       /\ convert_hv_return(code) =
             IF code = <<0, 0>> THEN Ok(0) ELSE Err(NamedError(code))
       /\ convert_hv_return(code).error.kind
             \notin {"InvalidHandle", "AllocationStillMapped", "panic"}
       /\ \A h \in AllocationHandles :
             LET out == map(Self, h, 196608, READ_WRITE, code)
             IN  out.calls # <<>> => PassedThrough(out.result, out.calls, code)
       /\ \A mh \in MappingHandles :
             LET out == unmap(Self, mh, code)
                 again == reprotect(Self, mh, EXECUTE, code)
             IN  /\ out.calls # <<>> => PassedThrough(out.result, out.calls, code)
                 /\ again.calls # <<>> =>
                       PassedThrough(again.result, again.calls, code)
       /\ \A h \in VcpuHandles :
             LET created == create_vcpu(h, code)
                 ran == VirtualCpu_run([handle |-> h], code,
                                       hv_vcpu_exit(HV_EXIT_REASON_UNKNOWN,
                                                    NoPayload))
                 exited == VirtualCpu_exit([handle |-> h], code)
                 exits == exit_vcpus(<<h>>, code)
             IN  /\ PassedThrough(created.result, created.calls, code)
                 /\ PassedThrough(ran.result, ran.calls, code)
                 /\ PassedThrough(exited.result, exited.calls, code)
                 /\ PassedThrough(exits.result, exits.calls, code)

\* C20 witness: with a mapping recorded and an allocation to map, unmap
\* reaches the backend and gives Denied for 0xfae94007 and Unsupported for
\* 0xfae9400f, reprotect gives Unknown(0xfae94008), and map gives
\* Unknown(0xffffffff).
C20_Witness ==
    /\ \E mh \in MappingHandles :
          /\ unmap(Self, mh, <<64233, 16391>>).calls # <<>>
          /\ unmap(Self, mh, <<64233, 16391>>).result = Err(HvError("Denied"))
          /\ unmap(Self, mh, <<64233, 16399>>).result = Err(HvError("Unsupported"))
          /\ reprotect(Self, mh, EXECUTE, <<64233, 16392>>).result =
                Err([kind |-> "Unknown", code |-> <<64233, 16392>>])
    /\ \E h \in AllocationHandles :
          /\ map(Self, h, 196608, READ_WRITE, <<65535, 65535>>).calls # <<>>
          /\ map(Self, h, 196608, READ_WRITE, <<65535, 65535>>).result =
                Err([kind |-> "Unknown", code |-> <<65535, 65535>>])

\* the guest range [address, address + size) meets the range of a record
OverlapsRecord(mapping, address, size) ==
    address < mapping.address + mapping.size /\ mapping.address < address + size

\* the guest ranges a map of the allocation would overlap a record with
OverlappingMaps ==
    {am \in AllocationHandles \X GuestAddresses :
        /\ find_allocation_by_handle(allocation_list, am[1]).ok
        /\ \E i \in DOMAIN mapping_list :
              OverlapsRecord(mapping_list[i], am[2],
                  allocation_list[find_allocation_by_handle(allocation_list,
                                                            am[1]).value].layout_size)}

\* C21: if a second map call targets a guest range overlapping an existing
\* mapping and the backend rejects it, the call fails with the backend's
\* error and the mapping list is as it was (with one mapping recorded: still
\* exactly that one record, unchanged); the registry performs no overlap or
\* duplicate check of its own: it calls hv_vm_map for the overlapping range
\* and the status alone decides, so that a success status would make it
\* record the second mapping.
C21_OverlapDecidedByBackend ==
    \A am \in OverlappingMaps, permission \in Permissions :
       /\ \A ret \in BackendFailures :
             LET out == map(Self, am[1], am[2], permission, ret)
             IN  /\ out.result = Err(HypervisorErrorFrom(ret))
                 /\ out.self = Self
                 /\ Len(out.calls) = 1
                 /\ out.calls[1].fn = "hv_vm_map"
                 /\ out.calls[1].ipa = am[2]
                 /\ out.calls[1].ret \in backend_returns(hv_memory, out.calls[1])
       /\ LET out == map(Self, am[1], am[2], permission, HV_SUCCESS)
          IN  /\ out.result.ok
              /\ Len(out.calls) = 1
              /\ Len(out.self.mapping_list) = Len(mapping_list) + 1
              /\ SubSeq(out.self.mapping_list, 1, Len(mapping_list)) = mapping_list
              /\ HV_SUCCESS \notin backend_returns(hv_memory, out.calls[1])

\* C21 witness: exactly one mapping is recorded, at 0x20000, and a map of an
\* allocation at the same guest address is rejected by the backend with
\* HV_ERROR: the call fails with Error and the list still holds one record.
C21_Witness ==
    /\ Len(mapping_list) = 1
    /\ mapping_list[1].address = 131072
    /\ \E am \in OverlappingMaps :
          /\ am[2] = 131072
          /\ map(Self, am[1], am[2], READ_WRITE, HV_ERROR).result
                = Err(HvError("Error"))
          /\ Len(map(Self, am[1], am[2], READ_WRITE, HV_ERROR).self.mapping_list) = 1

\* the step is a call of VirtualMachine::new
IsNew == vm_created' # vm_created

\* the fields of a VirtualMachine that holds nothing
EmptyVirtualMachine ==
    [allocation_counter |-> 0, mapping_counter |-> 0,
     allocation_list |-> <<>>, mapping_list |-> <<>>]

\* what the claim says of VirtualMachine::new: one hv_vm_create call; on
\* failure the status is returned, no VirtualMachine exists and nothing of
\* a destruction has been issued; on success the instance is empty
NewAsClaimed ==
    /\ \A config \in Configurations, ret \in BackendStatuses :
          LET out == VirtualMachine_new(config, ret)
          IN  /\ Len(out.calls) = 1
              /\ out.calls[1].fn = "hv_vm_create"
              /\ out.calls[1].address = config
              /\ out.result = IF ret = HV_SUCCESS THEN Ok(EmptyVirtualMachine)
                              ELSE Err(HypervisorErrorFrom(ret))
    /\ IsNew =>
          /\ vm_lifetime = "absent"
          /\ Len(vm_created') = Len(vm_created) + 1
          /\ SubSeq(vm_created', 1, Len(vm_created)) = vm_created
          /\ IF vm_created'[Len(vm_created')] = HV_SUCCESS
             THEN /\ vm_lifetime' = "live"
                  /\ Self' = EmptyVirtualMachine
                  /\ drop_calls' = <<>>
             ELSE /\ vm_lifetime' = "absent"
                  /\ drop_calls' = <<>>
    /\ vm_lifetime' = "absent" => drop_calls' = <<>>

\* what the claim says of create_vcpu: one hv_vcpu_create call; on failure
\* the status is returned and there is no VirtualCpu to destroy
CreateVcpuAsClaimed ==
    \A h \in VcpuHandles, ret \in BackendStatuses :
       LET out == create_vcpu(h, ret)
       IN  /\ Len(out.calls) = 1
           /\ out.calls[1].fn = "hv_vcpu_create"
           /\ out.result = IF ret = HV_SUCCESS THEN Ok([handle |-> h])
                           ELSE Err(HypervisorErrorFrom(ret))

\* the positions of the hv_vcpu_destroy calls of a call sequence
VcpuDestroysOf(calls) == {i \in DOMAIN calls : calls[i].fn = "hv_vcpu_destroy"}

\* C22 as stated: VirtualMachine::new issues exactly one hv_vm_create call;
\* if it fails the status is returned and no VirtualMachine exists, so
\* hv_vm_destroy is never issued for it; if it succeeds the instance has
\* empty lists and both counters at 0, and hv_vm_destroy is issued exactly
\* once, at its destruction; the same balance holds for create_vcpu and
\* hv_vcpu_destroy.
C22_AsStated ==
    [][/\ NewAsClaimed
       /\ IsDrop => Cardinality(DestroysOf(drop_calls')) = 1
       /\ CreateVcpuAsClaimed
       /\ \A h \in VcpuHandles, rets \in [1..2 -> BackendStatuses] :
             Cardinality(VcpuDestroysOf(drop_VirtualCpu([handle |-> h], rets).calls))
                = 1]_vars

\* C22: VirtualMachine::new issues exactly one hv_vm_create call; if it
\* fails the status is returned and no VirtualMachine exists, so
\* hv_vm_destroy is never issued for it; if it succeeds the instance has
\* empty lists and both counters at 0, and its destruction issues
\* hv_vm_destroy at most once, as its last call: exactly once when every
\* hv_vm_unmap of the destructor succeeded, and not at all after a failed
\* hv_vm_unmap. The same holds for create_vcpu and hv_vcpu_destroy: the
\* destruction of a VirtualCpu issues hv_vcpu_destroy exactly once when its
\* forced exit succeeded, and not at all when it failed.
C22_CreateDestroyBalanced ==
    [][/\ NewAsClaimed
       /\ IsDrop =>
             LET unmaps == {i \in DOMAIN drop_calls' :
                              drop_calls'[i].fn = "hv_vm_unmap"}
             IN  /\ Cardinality(DestroysOf(drop_calls')) <= 1
                 /\ DestroysOf(drop_calls') \subseteq {Len(drop_calls')}
                 /\ (DestroysOf(drop_calls') # {})
                       <=> (\A i \in unmaps : drop_calls'[i].ret = HV_SUCCESS)
       /\ vm_lifetime # "live" => UNCHANGED drop_calls
       /\ CreateVcpuAsClaimed
       /\ \A h \in VcpuHandles, rets \in [1..2 -> BackendStatuses] :
             LET calls == drop_VirtualCpu([handle |-> h], rets).calls
             IN  /\ Cardinality(VcpuDestroysOf(calls)) <= 1
                 /\ VcpuDestroysOf(calls) \subseteq {Len(calls)}
                 /\ (VcpuDestroysOf(calls) # {}) <=> (rets[1] = HV_SUCCESS)]_vars

\* C22 witness: the first VirtualMachine::new failed, the second gave the
\* VirtualMachine, which was destroyed with a mapping: one hv_vm_unmap, then
\* the one hv_vm_destroy.
C22_Witness ==
    /\ Len(vm_created) = 2
    /\ vm_created[1] # HV_SUCCESS
    /\ vm_created[2] = HV_SUCCESS
    /\ vm_lifetime = "dropped"
    /\ Len(drop_calls) = 2
    /\ drop_calls[1].fn = "hv_vm_unmap"
    /\ DestroysOf(drop_calls) = {2}

\* the size asked for when the allocation handle was issued
SizeAsked(handle) ==
    LET i == CHOOSE i \in DOMAIN issued_allocations :
                issued_allocations[i].handle = handle
    IN  issued_allocations[i].size

\* the records of a mapping list that carry the mapping handle
RecordsOf(list, mapping_handle) ==
    {list[i] : i \in {j \in DOMAIN list : list[j].mapping_handle = mapping_handle}}

\* the record has the size of its allocation, and unmap and reprotect pass
\* its (address, size) pair to the backend
RangeOfRecord(m) ==
    LET found == find_allocation_by_handle(allocation_list, m.allocation_handle)
    IN  /\ found.ok
        /\ m.size = allocation_list[found.value].layout_size
        /\ IsRoundedUp(m.size, SizeAsked(m.allocation_handle))
        /\ \A ret \in BackendStatuses, permission \in Permissions :
              LET released == unmap(Self, m.mapping_handle, ret).calls
                  protected == reprotect(Self, m.mapping_handle, permission, ret).calls
              IN  /\ Len(released) = 1
                  /\ released[1].fn = "hv_vm_unmap"
                  /\ <<released[1].ipa, released[1].size>> = <<m.address, m.size>>
                  /\ Len(protected) = 1
                  /\ protected[1].fn = "hv_vm_protect"
                  /\ <<protected[1].ipa, protected[1].size>> = <<m.address, m.size>>

\* a record the step created holds the pair the step passed to hv_vm_map; a
\* record that was there before the step kept its range and its allocation
RangeKept(m) ==
    IF RecordsOf(mapping_list, m.mapping_handle) = {}
    THEN /\ hv_memory' \ hv_memory # {}
         /\ \A r \in hv_memory' \ hv_memory :
               <<r.ipa, r.size>> = <<m.address, m.size>>
    ELSE \A before \in RecordsOf(mapping_list, m.mapping_handle) :
            /\ before.address = m.address
            /\ before.size = m.size
            /\ before.allocation_handle = m.allocation_handle

\* C24: for every mapping record, the size stored at map time is the full,
\* page-rounded size of the allocation it references; the guest range
\* passed to hv_vm_unmap and to hv_vm_protect for the mapping is exactly the
\* (address, size) pair that was passed to hv_vm_map when it was created;
\* and neither the address nor the size of a record changes while the
\* record exists.
C24_MappingRangeIsStable ==
    /\ [](\A i \in DOMAIN mapping_list : RangeOfRecord(mapping_list[i]))
    /\ [][\A i \in DOMAIN mapping_list' : RangeKept(mapping_list'[i])]_vars

\* C24 witness: two mappings are recorded, one of them of the allocation
\* asked with 0x10001 bytes: it is recorded with size 0x20000, and the
\* backend holds the same range with the flags of its permission.
C24_Witness ==
    /\ Len(mapping_list) = 2
    /\ \E i \in DOMAIN mapping_list :
          /\ mapping_list[i].size = 131072
          /\ SizeAsked(mapping_list[i].allocation_handle) = 65537
          /\ \E r \in hv_memory :
                /\ <<r.ipa, r.size>> = <<mapping_list[i].address, 131072>>
                /\ r.flags = hv_memory_flags_from(mapping_list[i].permission)

\* the handles issued so far, in the order they were issued
AllocationHandlesIssued ==
    [i \in DOMAIN issued_allocations |-> issued_allocations[i].handle]

MappingHandlesIssued ==
    [i \in DOMAIN issued_mappings |-> issued_mappings[i].handle]

\* allocate leaves the mapping counter alone and a successful map leaves the
\* allocation counter alone
CountersIndependent ==
    /\ \A size \in AllocationSizes, base \in host_allocations(heap_live) :
          allocate(Self, size, base).self.mapping_counter = mapping_counter
    /\ \A source \in Sources, base \in host_allocations(heap_live) :
          allocate_from(Self, source, base).self.mapping_counter = mapping_counter
    /\ \A h \in AllocationHandles, address \in GuestAddresses :
          LET out == map(Self, h, address, READ_WRITE, HV_SUCCESS)
          IN  /\ out.self.allocation_counter = allocation_counter
              /\ out.result.ok => out.self.mapping_counter # mapping_counter

\* C25 as stated: no issued handle equals 0 and handles are assigned in
\* strictly increasing order, over the 64-bit arithmetic of the counter, the
\* increment from 2^64 - 1 included; allocate never advances the mapping
\* counter and a successful map never advances the allocation counter.
C25_AsStated ==
    /\ \A i \in DOMAIN AllocationHandlesIssued :
          /\ AllocationHandlesIssued[i] # 0
          /\ i > 1 => U64Less(AllocationHandlesIssued[i - 1],
                               AllocationHandlesIssued[i])
    /\ \A i \in DOMAIN MappingHandlesIssued :
          /\ MappingHandlesIssued[i] # 0
          /\ i > 1 => U64Less(MappingHandlesIssued[i - 1], MappingHandlesIssued[i])
    /\ CountersIndependent

\* the handles of a namespace count up from the value its counter started
\* at (the counter less the number of handles issued): the i-th handle of
\* the run is start + i modulo 2^64, so it is 0 exactly when the counter was
\* at u64::MAX, and it is above the one before unless that one was u64::MAX
CountsUp(issued, counter) ==
    LET start == counter - Len(issued)
    IN  /\ start \in CounterStarts
        /\ \A i \in DOMAIN issued :
              /\ issued[i] = start + i
              /\ (issued[i] = 0) <=> add_overflows(start + i - 1)
              /\ start = 0 => issued[i] = i
              /\ i > 1 => \/ U64Less(issued[i - 1], issued[i])
                          \/ add_overflows(issued[i - 1]) /\ issued[i] = 0

\* C25: handles are assigned by pre-incrementing a counter that starts at
\* 0: while fewer than 2^64 - 1 handles have been issued in a namespace, the
\* k-th handle is k, no handle is 0 and the handles are strictly
\* increasing. The increment from 2^64 - 1 is not handled: it wraps, so that
\* the next handle is 0 (or, in a build with overflow checks, the call
\* panics and issues no handle). The two counters are independent: allocate
\* never advances the mapping counter and a successful map never advances
\* the allocation counter.
C25_HandlesCountUp ==
    /\ CountsUp(AllocationHandlesIssued, allocation_counter)
    /\ CountsUp(MappingHandlesIssued, mapping_counter)
    /\ CountersIndependent

\* C25 witness: the allocation counter was at 2^64 - 2: the handles issued
\* are 2^64 - 1 and then 0; and a mapping handle has been issued from a
\* counter that started at 0.
C25_Witness ==
    /\ AllocationHandlesIssued = <<U64_MAX, 0>>
    /\ MappingHandlesIssued = <<1>>

\* the statuses run is tried with: success, the two the backend of the model
\* answers, HV_BUSY and the unnamed code 1
RunStatuses == BackendStatuses \cup {HV_BUSY, <<0, 1>>}

\* C26: run decodes the exit-info record only after a successful backend
\* run: if hv_vcpu_run returns a non-success status, run returns that error
\* and no exit reason is produced from the record, whatever it holds; if it
\* returns success, run returns Ok with the decoding of the record's current
\* contents.
C26_RunDecodesOnSuccessOnly ==
    /\ \A h \in VcpuHandles, ret \in RunStatuses, reason \in ExitReasons,
          exception \in ExitExceptions \cup {NoPayload} :
          LET vcpu_exit == hv_vcpu_exit(reason, exception)
              out == VirtualCpu_run([handle |-> h], ret, vcpu_exit)
          IN  /\ Len(out.calls) = 1
              /\ out.calls[1] = VcpuCall("hv_vcpu_run", <<h>>, ret)
              /\ IF ret = <<0, 0>>
                 THEN /\ out.result.ok
                      /\ out.result.value.kind =
                            CASE reason = <<0, 0>> -> "Cancelled"
                              [] reason = <<0, 1>> -> "Exception"
                              [] reason = <<0, 2>> -> "VTimerActivated"
                              [] OTHER -> "Unknown"
                      /\ reason = <<0, 1>> => out.result.value.exception = exception
                 ELSE /\ out.result = Err(NamedError(ret))
                      /\ out.result = VirtualCpu_run([handle |-> h], ret,
                                          hv_vcpu_exit(HV_EXIT_REASON_CANCELED,
                                                       NoPayload)).result
    /\ \A h \in VcpuHandles :
          vcpus[h].returned # <<>> =>
             LET r == vcpus[h].returned[1]
             IN  r.result = IF r.ret = <<0, 0>>
                            THEN Ok(VirtualCpuExitReasonFrom(r.vcpu_exit))
                            ELSE Err(NamedError(r.ret))

\* C26 witness: the last run of vCPU 0 failed with HV_ERROR and gave
\* Err(Error), and the last run of vCPU 1 succeeded and gave VTimerActivated.
C26_Witness ==
    /\ vcpus[0].returned # <<>>
    /\ vcpus[0].returned[1].ret = <<64233, 16385>>
    /\ vcpus[0].returned[1].result = Err(HvError("Error"))
    /\ vcpus[1].returned # <<>>
    /\ vcpus[1].returned[1].ret = <<0, 0>>
    /\ vcpus[1].returned[1].result = Ok(VTimerActivated)

\* 1 for TRUE and 0 for FALSE
Bit(flag) == IF flag THEN 1 ELSE 0

\* C27: the permission-to-bitmask conversion ORs one bit per true flag
\* (read = bit 0, write = bit 1, execute = bit 2): over all 8 combinations
\* of the three booleans the result is read + 2 * write + 4 * execute, the
\* conversion is injective, the empty permission converts to 0, and the
\* seven named constants convert to the seven distinct non-zero values 1..7.
\* The flags the backend received with hv_vm_map and hv_vm_protect are these.
C27_PermissionBitmask ==
    /\ \A r \in BOOLEAN, w \in BOOLEAN, x \in BOOLEAN :
          hv_memory_flags_from(MemoryPermission(r, w, x))
             = Bit(r) + 2 * Bit(w) + 4 * Bit(x)
    /\ \A p \in AllPermissions, q \in AllPermissions :
          hv_memory_flags_from(p) = hv_memory_flags_from(q) => p = q
    /\ hv_memory_flags_from(MemoryPermission(FALSE, FALSE, FALSE)) = 0
    /\ <<hv_memory_flags_from(READ), hv_memory_flags_from(WRITE),
          hv_memory_flags_from(READ_WRITE), hv_memory_flags_from(EXECUTE),
          hv_memory_flags_from(READ_EXECUTE), hv_memory_flags_from(WRITE_EXECUTE),
          hv_memory_flags_from(READ_WRITE_EXECUTE)>> = <<1, 2, 3, 4, 5, 6, 7>>
    /\ \A i \in DOMAIN mapping_list :
          LET m == mapping_list[i]
          IN  \E range \in hv_memory :
                 /\ range.ipa = m.address
                 /\ range.flags = Bit(m.permission.read) + 2 * Bit(m.permission.write)
                                     + 4 * Bit(m.permission.execute)

\* C27 witness: the backend holds a range with the flags 7, mapped
\* READ_WRITE_EXECUTE, and a range with the flags 0, mapped or reprotected
\* with the empty permission.
C27_Witness ==
    /\ \E i \in DOMAIN mapping_list : mapping_list[i].permission = READ_WRITE_EXECUTE
    /\ \E range \in hv_memory : range.flags = 7
    /\ \E range \in hv_memory : range.flags = 0

\* the vCPUs create_vcpu returned for which no hv_vcpu_destroy was issued
VcpusNotDestroyed ==
    {h \in VcpuHandles :
        /\ vcpus[h].status # "absent"
        /\ VcpuDestroysOf(vcpus[h].dropped_with) = {}}

\* C28 as stated: the backend VM is never destroyed while a vCPU created
\* through the VirtualMachine is still live: when hv_vm_destroy has been
\* issued, hv_vcpu_destroy has been issued before it for each vCPU that
\* create_vcpu returned.
C28_AsStated ==
    [][DestroysOf(drop_calls') # {} /\ DestroysOf(drop_calls) = {}
          => VcpusNotDestroyed = {}]_vars

\* the list without its k-th element, the others in their order
Without(list, k) == SubSeq(list, 1, k - 1) \o SubSeq(list, k + 1, Len(list))

AllStatuses == BackendStatuses \cup RunStatuses

\* C30: the internal assertions are never violated in any reachable state:
\* in reprotect the index found before the backend call still designates the
\* same mapping after it (the expect on get_mut never fires); the
\* status-to-error conversion is never applied to the success status (no
\* result of convert_hv_return is the panic of From for HV_SUCCESS); and in
\* allocate_from the lookup of the handle just returned by allocate always
\* succeeds, so the call never answers through its NoResources branch.
C30_InternalAssertionsHold ==
    /\ \A mh \in MappingHandles, permission \in AllPermissions,
          ret \in BackendStatuses :
          LET found == find_mapping_by_handle(mapping_list, mh)
              out == reprotect(Self, mh, permission, ret)
          IN  /\ ~out.result.ok => out.result.error # HvError("panic")
              /\ found.ok /\ ret = HV_SUCCESS =>
                    /\ out.result.ok
                    /\ found.value \in DOMAIN out.self.mapping_list
                    /\ out.self.mapping_list[found.value].mapping_handle = mh
                    /\ out.self.mapping_list[found.value].permission = permission
    /\ \A value \in AllStatuses :
          LET converted == convert_hv_return(value)
          IN  ~converted.ok =>
                 /\ value # HV_SUCCESS
                 /\ converted.error = HypervisorErrorFrom(value)
                 /\ converted.error # HvError("panic")
    /\ \A source \in Sources \cup {<<>>}, base \in alloc_zeroed_returns(heap_live) :
          LET out == allocate_from(Self, source, base)
          IN  /\ out.result.ok
              /\ find_allocation_by_handle(out.self.allocation_list,
                                           out.result.value).ok
              /\ get_allocation_slice(out.self, out.result.value).ok

\* C30 witness: an allocation made by allocate_from is in the list with the
\* bytes of its source and is mapped, and a reprotect of its mapping that
\* the backend accepts finds the record at its index and changes its
\* permission.
C30_Witness ==
    \E i \in DOMAIN mapping_list, k \in DOMAIN allocation_list :
       /\ allocation_list[k].prefix = <<64, 0>>
       /\ mapping_list[i].allocation_handle = allocation_list[k].handle
       /\ mapping_list[i].permission = EXECUTE
       /\ LET out == reprotect(Self, mapping_list[i].mapping_handle, READ_WRITE,
                              HV_SUCCESS)
          IN  /\ out.result.ok
              /\ out.self.mapping_list[i].permission = READ_WRITE

====
